---- MODULE Spec2Model ----
(***************************************************************************)
(* Long-running task orchestration of the video/image generation backend:  *)
(* submit a job to a vendor, poll its status under an attempt limit,       *)
(* retry with exponential backoff, relocate the result to OSS.             *)
(*                                                                         *)
(* One public generate call is in progress at a time; the vendor's answers *)
(* to every HTTP request are chosen nondeterministically.                  *)
(***************************************************************************)
EXTENDS Integers, Sequences, FiniteSets, TLC

(***************************************************************************)
(* Bounds.  The poll limits of the source (max_attempts=120/180,           *)
(* max_poll_attempts=36/240/360, max_retries=30, max_wait_time/poll_       *)
(* interval=60) are all scaled to PollLimit.                               *)
(***************************************************************************)
PollLimit == 3

MaxImages == 2

MaxAttemptsParam == 7

(***************************************************************************)
(* Program constants.                                                      *)
(***************************************************************************)
RetryMaxAttempts == 3

max_retry_attempts == 3

WaitMultiplier == 1

WaitMin == 2

WaitMax == 10

MAX_REFERENCE_IMAGES == 2

task_poll_interval == 5

WanxI2I_poll_interval == 10

WanxKf2v_poll_interval == 15

VolcVideo_poll_interval == 5

VolcJiMeng_poll_interval == 2

GoogleVeo_poll_interval == 10

Services == {"Wanx", "WanxI2I", "WanxKf2v", "VolcVideo", "VolcJiMeng",
             "GoogleVeo", "Sora", "Qwen"}

JobIds == {"j1", "j2"}

Min(a, b) == IF a <= b THEN a ELSE b

Max(a, b) == IF a >= b THEN a ELSE b

RECURSIVE Pow2(_)
Pow2(n) == IF n <= 0 THEN 1 ELSE 2 * Pow2(n - 1)

(***************************************************************************)
(* Exceptions.  An exception value is a record; constructing an ApiError   *)
(* subclass with a keyword its __init__ does not declare raises TypeError  *)
(* instead of the intended exception.  The message and detail fields hold  *)
(* short tags for the literals and response bodies of the source.          *)
(***************************************************************************)
Exc(t, q) == [type |-> t, message |-> "none", task_id |-> "none",
              detail |-> "none", timeout |-> 0, status_code |-> 0,
              quota |-> q]

NoExc == Exc("none", FALSE)

(* __init__() got an unexpected keyword argument                           *)
TypeError == [Exc("TypeError", FALSE) EXCEPT !.message = "unexpected keyword"]

RetryError == Exc("tenacity.RetryError", FALSE)

HTTPError == Exc("httpx.HTTPError", FALSE)

KeyError == Exc("KeyError", FALSE)

AttributeError == Exc("AttributeError", FALSE)

(* Raised at the await in progress when the task running the call is       *)
(* cancelled; derives from BaseException, not from Exception.              *)
CancelledError == Exc("asyncio.CancelledError", FALSE)

(* isinstance(e, Exception): what an `except Exception` clause catches.    *)
IsException(e) == e.type # "asyncio.CancelledError"

(* An exception of the Google SDK; quota tells whether its text contains    *)
(* 429 / RESOURCE_EXHAUSTED / quota.                                        *)
VendorError(q) == Exc("google.genai.errors.APIError", q)

Kw(kw, k, default) == IF k \in DOMAIN kw THEN kw[k] ELSE default

ApiError(kw) ==
    IF DOMAIN kw \subseteq {"message", "status_code", "detail"}
    THEN [type |-> "ApiError", message |-> kw.message,
          task_id |-> "none",
          detail |-> Kw(kw, "detail", "none"), timeout |-> 0,
          status_code |-> Kw(kw, "status_code", 500), quota |-> FALSE]
    ELSE TypeError

DashScopeApiError(kw) ==
    IF DOMAIN kw \subseteq {"message", "status_code", "detail"}
    THEN [type |-> "DashScopeApiError",
          message |-> Kw(kw, "message", "DashScope API call failed"),
          task_id |-> "none",
          detail |-> Kw(kw, "detail", "none"), timeout |-> 0,
          status_code |-> Kw(kw, "status_code", 502), quota |-> FALSE]
    ELSE TypeError

TaskFailedError(kw) ==
    IF DOMAIN kw \subseteq {"message", "task_id", "detail"}
    THEN [type |-> "TaskFailedError",
          message |-> Kw(kw, "message", "task failed"),
          task_id |-> Kw(kw, "task_id", "none"),
          detail |-> Kw(kw, "detail", "none"), timeout |-> 0,
          status_code |-> 500, quota |-> FALSE]
    ELSE TypeError

TaskTimeoutError(kw) ==
    IF DOMAIN kw \subseteq {"message", "task_id", "timeout"}
    THEN [type |-> "TaskTimeoutError",
          message |-> Kw(kw, "message", "task timeout"),
          task_id |-> Kw(kw, "task_id", "none"),
          detail |-> "task_id_timeout", timeout |-> Kw(kw, "timeout", 0),
          status_code |-> 408, quota |-> FALSE]
    ELSE TypeError

(***************************************************************************)
(* Vendor answers to one status request.                                   *)
(*   running     PENDING / RUNNING / in_queue / generating                 *)
(*   succeeded   SUCCEEDED / done, with the result payload                 *)
(*   succeeded_with_error   a success status and payload in a body that    *)
(*               also carries an error code or message                     *)
(*   failed      FAILED                                                    *)
(*   canceled    CANCELED                                                  *)
(*   not_found, expired   the Volcengine terminal statuses                 *)
(*   other       a status string no vendor documents                       *)
(*   missing     a body whose output has no status field                   *)
(*   no_output   a 200 body without the output / data object               *)
(*   http4xx, http5xx   a response whose status code is not 200            *)
(*   neterr      the request raises httpx.HTTPError (connect, timeout)     *)
(***************************************************************************)
PollResp == {"running", "succeeded", "succeeded_with_error", "failed",
             "canceled", "not_found", "expired", "other", "missing", "no_output", "http4xx",
             "http5xx", "neterr"}

Sleep == [act |-> "sleep", exc |-> NoExc]

Return == [act |-> "return", exc |-> NoExc]

Raise(e) == [act |-> "raise", exc |-> e]

(***************************************************************************)
(* One iteration of each vendor's poll loop: the answer to the status      *)
(* request decides whether the loop returns, raises or sleeps and goes on. *)
(* The X_poll_task operators add the loop exit: n is the number of status  *)
(* requests issued so far for the job, this one included.                  *)
(***************************************************************************)
Wanx_poll_iter_failed_unknown(resp, task_id) ==
    CASE resp \in {"succeeded", "succeeded_with_error"} -> Return
      [] OTHER -> Sleep

Wanx_poll_iter(resp, task_id) ==
    CASE resp = "neterr" -> Sleep
      [] resp \in {"http4xx", "http5xx"} -> Sleep
      [] resp \in {"succeeded", "succeeded_with_error"} -> Return
      [] resp = "failed" ->
            Raise(TaskFailedError([message |-> "task failed",
                                   task_id |-> task_id,
                                   detail |-> "vendor_data"]))
      [] resp = "running" -> Sleep
      [] OTHER -> Sleep

Wanx_poll_task(resp, task_id, n, max_attempts) ==
    LET it == Wanx_poll_iter(resp, task_id) IN
    IF it.act = "sleep" /\ n >= max_attempts
    THEN Raise(TaskTimeoutError([message |-> "task timeout",
                                 task_id |-> task_id,
                                 timeout |-> max_attempts * task_poll_interval]))
    ELSE it

WanxI2I_poll_iter(resp, task_id) ==
    CASE resp = "neterr" -> Sleep
      [] resp \in {"http4xx", "http5xx"} -> Sleep
      [] resp \in {"succeeded", "succeeded_with_error"} -> Return
      [] resp = "failed" ->
            Raise(ApiError([message |-> "task failed",
                            detail |-> "vendor_msg"]))
      [] resp = "running" -> Sleep
      [] OTHER -> Sleep

WanxI2I_poll_task(resp, task_id, n, max_poll_attempts) ==
    LET it == WanxI2I_poll_iter(resp, task_id) IN
    IF it.act = "sleep" /\ n >= max_poll_attempts
    THEN Raise(ApiError([message |-> "task timeout",
                         detail |-> "waited_seconds"]))
    ELSE it

WanxKf2v_poll_iter(resp, task_id) ==
    CASE resp \in {"http4xx", "http5xx"} ->
            Raise(DashScopeApiError([message |-> "query failed",
                                     details |-> "response_text"]))
      [] resp = "neterr" -> Raise(HTTPError)
      [] resp = "no_output" ->
            Raise(DashScopeApiError([message |-> "bad response",
                                     details |-> "vendor_data"]))
      [] resp \in {"succeeded", "succeeded_with_error"} -> Return
      [] resp \in {"failed", "canceled", "missing"} ->
            Raise(TaskFailedError([message |-> "task failed",
                                   details |-> "vendor_data"]))
      [] OTHER -> Sleep

WanxKf2v_poll_task(resp, task_id, n, max_poll_attempts) ==
    LET it == WanxKf2v_poll_iter(resp, task_id) IN
    IF it.act = "sleep" /\ n >= max_poll_attempts
    THEN Raise(TaskTimeoutError([message |-> "task timeout",
                                 details |-> "task_id"]))
    ELSE it

VolcVideo_get_task_result(resp) ==
    CASE resp \in {"http4xx", "http5xx"} ->
            Raise(ApiError([message |-> "query failed",
                            detail |-> "response_text"]))
      [] resp = "neterr" -> Raise(HTTPError)
      [] resp \in {"no_output", "succeeded_with_error"} ->
            Raise(ApiError([message |-> "query failed",
                            detail |-> "vendor_data"]))
      [] OTHER -> Return

VolcVideo_poll_iter_no_return(resp, task_id) ==
    LET got == VolcVideo_get_task_result(resp) IN
    IF got.act = "raise" THEN got
    ELSE CASE resp \in {"not_found", "expired"} ->
                 Raise(ApiError([message |-> "task not_found/expired",
                                 details |-> "vendor_data"]))
           [] OTHER -> Sleep

VolcVideo_poll_iter(resp, task_id) ==
    LET got == VolcVideo_get_task_result(resp) IN
    IF got.act = "raise" THEN got
    ELSE CASE resp = "succeeded" -> Return
           [] resp \in {"not_found", "expired"} ->
                 Raise(ApiError([message |-> "task not_found/expired",
                                 details |-> "vendor_data"]))
           [] OTHER -> Sleep

VolcVideo_poll_task_result(resp, task_id, n, max_poll_attempts) ==
    LET it == VolcVideo_poll_iter(resp, task_id) IN
    IF it.act = "sleep" /\ n >= max_poll_attempts
    THEN Raise(ApiError([message |-> "task timeout",
                         details |-> "task_id"]))
    ELSE it

VolcJiMeng_poll_iter(resp, task_id) ==
    CASE resp \in {"http4xx", "http5xx", "neterr"} ->
            Raise(ApiError([message |-> "request failed",
                            detail |-> "str_e"]))
      [] resp = "succeeded" -> Return
      [] resp = "succeeded_with_error" ->
            Raise(ApiError([message |-> "generate failed",
                            detail |-> "vendor_msg"]))
      [] resp = "running" -> Sleep
      [] resp = "not_found" ->
            Raise(ApiError([message |-> "task not found",
                            detail |-> "fixed"]))
      [] resp = "expired" ->
            Raise(ApiError([message |-> "task expired",
                            detail |-> "fixed"]))
      [] OTHER ->
            Raise(ApiError([message |-> "unknown status",
                            detail |-> "status"]))

VolcJiMeng_poll_unbounded(resp, task_id, n, max_retries) ==
    VolcJiMeng_poll_iter(resp, task_id)

VolcJiMeng_poll(resp, task_id, n, max_retries) ==
    LET it == VolcJiMeng_poll_iter(resp, task_id) IN
    IF it.act = "sleep" /\ n >= max_retries
    THEN Raise(ApiError([message |-> "task timeout",
                         detail |-> "polled_max_retries"]))
    ELSE it

(* GoogleVeoService._poll_operation: sleep, add poll_interval to           *)
(* elapsed_time, refresh the operation; a refresh that raises propagates,  *)
(* a done operation ends the loop (also when the vendor attached an error  *)
(* and no response), otherwise the elapsed-time test raises the timeout.   *)
GoogleVeo_poll_operation_timeout_first(resp, task_id, n, max_wait_time) ==
    CASE resp \in {"http4xx", "http5xx", "neterr"} -> Raise(HTTPError)
      [] n * GoogleVeo_poll_interval >= max_wait_time ->
            Raise(ApiError([message |-> "extension timeout",
                            details |-> "waited_seconds"]))
      [] resp \in {"succeeded", "succeeded_with_error", "failed"} -> Return
      [] OTHER -> Sleep

GoogleVeo_poll_operation(resp, task_id, n, max_wait_time) ==
    CASE resp \in {"http4xx", "http5xx", "neterr"} -> Raise(HTTPError)
      [] resp \in {"succeeded", "succeeded_with_error", "failed"} -> Return
      [] OTHER ->
            IF n * GoogleVeo_poll_interval >= max_wait_time
            THEN Raise(ApiError([message |-> "extension timeout",
                                 details |-> "waited_seconds"]))
            ELSE Sleep

(***************************************************************************)
(* Vendor answers to the submit request.                                   *)
(*   ok          the job was accepted and an id returned                   *)
(*   ok_done     (Google) the returned operation is already done           *)
(*   rejected    a 200 body that carries an error code and no job          *)
(*   no_task_id  a 200 success body without the id field                   *)
(*   quota       (Google) the SDK raises 429 RESOURCE_EXHAUSTED            *)
(***************************************************************************)
SubmitResp == {"ok", "ok_done", "rejected", "no_task_id", "quota",
               "http4xx", "http5xx", "neterr"}

Wanx_create_task(resp) ==
    CASE resp \in {"ok", "ok_done"} -> Return
      [] resp = "http4xx" ->
            Raise(DashScopeApiError([message |-> "create failed",
                                     status_code |-> 400,
                                     detail |-> "response_text"]))
      [] resp \in {"http5xx", "quota"} ->
            Raise(DashScopeApiError([message |-> "create failed",
                                     status_code |-> 503,
                                     detail |-> "response_text"]))
      [] resp \in {"rejected", "no_task_id"} ->
            Raise(DashScopeApiError([message |-> "no task id",
                                     detail |-> "vendor_data"]))
      [] OTHER ->
            Raise(DashScopeApiError([message |-> "http request failed",
                                     detail |-> "str_e"]))

WanxI2I_create_task(resp, reference_images) ==
    IF reference_images > MAX_REFERENCE_IMAGES
    THEN Raise(ApiError([message |-> "too many reference images",
                         detail |-> "max_reference_images"]))
    ELSE CASE resp \in {"ok", "ok_done"} -> Return
           [] resp \in {"http4xx", "http5xx", "quota"} ->
                 Raise(ApiError([message |-> "create failed",
                                 detail |-> "response_text"]))
           [] resp \in {"rejected", "no_task_id"} ->
                 Raise(ApiError([message |-> "create failed",
                                 detail |-> "vendor_data"]))
           [] OTHER ->
                 Raise(ApiError([message |-> "http request failed",
                                 detail |-> "str_e"]))

WanxKf2v_create_task(resp) ==
    CASE resp \in {"ok", "ok_done"} -> Return
      [] resp \in {"http4xx", "http5xx", "quota"} ->
            Raise(DashScopeApiError([message |-> "request failed",
                                     details |-> "response_text"]))
      [] resp \in {"rejected", "no_task_id"} ->
            Raise(DashScopeApiError([message |-> "bad response",
                                     details |-> "vendor_data"]))
      [] OTHER -> Raise(HTTPError)

VolcVideo_submit_task(resp) ==
    CASE resp \in {"ok", "ok_done"} -> Return
      [] resp \in {"http4xx", "http5xx", "quota"} ->
            Raise(ApiError([message |-> "request failed",
                            detail |-> "response_text"]))
      [] resp = "rejected" ->
            Raise(ApiError([message |-> "submit failed",
                            details |-> "vendor_data"]))
      [] resp = "no_task_id" -> Raise(KeyError)
      [] OTHER -> Raise(HTTPError)

VolcJiMeng_submit(resp) ==
    CASE resp \in {"ok", "ok_done"} -> Return
      [] resp \in {"http4xx", "http5xx", "quota", "neterr"} ->
            Raise(ApiError([message |-> "request failed",
                            detail |-> "str_e"]))
      [] resp = "rejected" ->
            Raise(ApiError([message |-> "submit failed",
                            detail |-> "vendor_msg"]))
      [] OTHER ->
            Raise(ApiError([message |-> "no task_id",
                            detail |-> "fixed"]))

GoogleVeo_generate_videos(resp) ==
    CASE resp \in {"ok", "ok_done"} -> Return
      [] resp = "quota" -> Raise(VendorError(TRUE))
      [] OTHER -> Raise(VendorError(FALSE))

Sora_post(resp) ==
    CASE resp \in {"ok", "ok_done"} -> Return
      [] resp \in {"http4xx", "http5xx", "quota", "neterr"} ->
            Raise(ApiError([message |-> "Sora request failed",
                            detail |-> "str_e"]))
      [] OTHER ->
            Raise(ApiError([message |-> "no video link",
                            detail |-> "fixed"]))

Gemini_request_image(resp) ==
    CASE resp \in {"ok", "ok_done"} -> Return
      [] resp \in {"http4xx", "http5xx", "quota"} ->
            Raise(ApiError([message |-> "Gemini request failed",
                            detail |-> "response_text"]))
      [] resp = "neterr" ->
            Raise(ApiError([message |-> "Gemini network error",
                            detail |-> "str_e"]))
      [] OTHER ->
            Raise(ApiError([message |-> "Gemini bad response",
                            detail |-> "fixed"]))

Qwen_post(resp) ==
    CASE resp \in {"ok", "ok_done"} -> Return
      [] resp \in {"http4xx", "http5xx", "quota"} ->
            Raise(ApiError([message |-> "request failed",
                            detail |-> "response_text"]))
      [] resp \in {"rejected", "no_task_id"} ->
            Raise(ApiError([message |-> "generate failed",
                            detail |-> "vendor_data"]))
      [] OTHER -> Raise(HTTPError)

(* The try/except of GoogleVeoService.generate_text_to_video: every        *)
(* exception becomes a new ApiError, with status 429 when its text names   *)
(* the quota.                                                              *)
GoogleVeo_except(e) ==
    IF e.quota
    THEN ApiError([message |-> "quota exhausted", status_code |-> 429,
                   detail |-> "str_e"])
    ELSE ApiError([message |-> "text to video failed", detail |-> "str_e"])

(***************************************************************************)
(* Relocation of a raw result to OSS.  dl and up are the outcomes ("ok" or *)
(* "fail") of the download from the vendor URL and of the OSS put_object.  *)
(***************************************************************************)
IOResult == {"ok", "fail"}

OSS_upload_from_url(dl, up) ==
    CASE dl = "fail" -> Raise(ApiError([message |-> "download failed",
                                        detail |-> "str_e"]))
      [] up = "fail" -> Raise(ApiError([message |-> "upload from url failed",
                                        detail |-> "str_e"]))
      [] OTHER -> Return

(* _save_video_to_oss / _save_image_to_oss of VolcVideo, WanxKf2v, Qwen    *)
(* and WanxI2I: any exception is logged and the temporary URL returned.    *)
Save_to_oss_fallback(dl, up) ==
    IF OSS_upload_from_url(dl, up).act = "return"
    THEN [act |-> "return", exc |-> NoExc, url |-> "oss"]
    ELSE [act |-> "return", exc |-> NoExc, url |-> "temp"]

Sora_save_video_to_oss(dl, up) ==
    CASE dl = "fail" ->
            [act |-> "raise", url |-> "none",
             exc |-> ApiError([message |-> "download video failed",
                               detail |-> "str_e"])]
      [] up = "fail" ->
            [act |-> "raise", url |-> "none",
             exc |-> ApiError([message |-> "save video failed",
                               detail |-> "str_e"])]
      [] OTHER -> [act |-> "return", exc |-> NoExc, url |-> "oss"]

(* GoogleVeo: _download_video_from_google then _upload_video_to_oss.       *)
GoogleVeo_upload_video_to_oss(dl, up) ==
    CASE dl = "fail" ->
            [act |-> "raise", url |-> "none",
             exc |-> ApiError([message |-> "download from Google failed",
                               detail |-> "str_e"])]
      [] up = "fail" ->
            [act |-> "raise", url |-> "none",
             exc |-> ApiError([message |-> "upload to OSS failed",
                               detail |-> "str_e"])]
      [] OTHER -> [act |-> "return", exc |-> NoExc, url |-> "oss"]

(***************************************************************************)
(* The retry wrapper: tenacity.retry(stop_after_attempt, wait_exponential, *)
(* reraise=True) retries on every exception.                               *)
(***************************************************************************)
Reraise == TRUE

(* What the wrapper raises once stop_after_attempt holds.                  *)
retry_error(e, reraise) == IF reraise THEN e ELSE RetryError

stop_after_attempt_gt(attempt_number, max_attempt_number) ==
    attempt_number > max_attempt_number

stop_after_attempt(attempt_number, max_attempt_number) ==
    attempt_number >= max_attempt_number

(* The retry condition: retry() is called without `retry=`, which leaves   *)
(* tenacity's default retry_if_exception_type(Exception).                  *)
retry_if_exception_type_base(e) == TRUE

retry_if_exception_type(e) == IsException(e)

wait_exponential_from_zero(multiplier, min, max, attempt_number) ==
    Max(Max(0, min), Min(multiplier * Pow2(attempt_number), max))

wait_exponential(multiplier, min, max, attempt_number) ==
    Max(Max(0, min), Min(multiplier * Pow2(attempt_number - 1), max))

(* retry_decorator returns the function unwrapped when settings.enable_    *)
(* retry is false; WanxKf2v._create_task and VolcJiMeng.generate_image use *)
(* tenacity's @retry directly.                                             *)
UsesTenacityDirectly(s) == s \in {"WanxKf2v", "VolcJiMeng"}

retry_decorator(s, enabled) == UsesTenacityDirectly(s) \/ enabled

(* The steps of a generate call that run inside the retry wrapper, and the *)
(* step a retry starts again from.                                         *)
RetryScope(s) ==
    CASE s \in {"Wanx", "WanxI2I", "WanxKf2v", "VolcVideo"} -> {"submit"}
      [] s = "VolcJiMeng" -> {"submit", "poll"}
      [] s = "GoogleVeo" -> {"submit", "poll", "relocate"}
      [] s = "Qwen" -> {"submit", "relocate"}
      [] s = "Gemini" -> {"submit"}
      [] OTHER -> {"relocate"}

RestartPc(s) == IF s = "Sora" THEN "relocate" ELSE "submit"

HasPoll_not_kf2v(s) == s \in {"Wanx", "WanxI2I", "VolcVideo", "VolcJiMeng",
                              "GoogleVeo"}

HasPoll(s) == s \in {"Wanx", "WanxI2I", "WanxKf2v", "VolcVideo",
                     "VolcJiMeng", "GoogleVeo"}

HasReloc(s) == s \in {"WanxI2I", "WanxKf2v", "VolcVideo", "GoogleVeo",
                      "Sora", "Qwen"}

(* GoogleVeoService._base64_to_google_image: a base64 string that does not *)
(* decode raises ApiError, which the method's own handler re-raises.       *)
GoogleVeo_base64_to_google_image(image_ok) ==
    IF image_ok THEN Return
    ELSE Raise(ApiError([message |-> "bad base64 data",
                         detail |-> "decode_error"]))

(* The checks made on the arguments before any request is sent.            *)
Validate(s, reference_images, image_ok) ==
    CASE s = "WanxI2I" /\ reference_images > MAX_REFERENCE_IMAGES ->
            WanxI2I_create_task("ok", reference_images)
      [] s = "GoogleVeo" -> GoogleVeo_base64_to_google_image(image_ok)
      [] OTHER -> Return

SubmitStep(s, resp, reference_images) ==
    CASE s = "Wanx" -> Wanx_create_task(resp)
      [] s = "WanxI2I" -> WanxI2I_create_task(resp, reference_images)
      [] s = "WanxKf2v" -> WanxKf2v_create_task(resp)
      [] s = "VolcVideo" -> VolcVideo_submit_task(resp)
      [] s = "VolcJiMeng" -> VolcJiMeng_submit(resp)
      [] s = "GoogleVeo" -> GoogleVeo_generate_videos(resp)
      [] s = "Sora" -> Sora_post(resp)
      [] OTHER -> Qwen_post(resp)

PollStep(s, resp, tid, n) ==
    CASE s = "Wanx" -> Wanx_poll_task(resp, tid, n, PollLimit)
      [] s = "WanxI2I" -> WanxI2I_poll_task(resp, tid, n, PollLimit)
      [] s = "WanxKf2v" -> WanxKf2v_poll_task(resp, tid, n, PollLimit)
      [] s = "VolcVideo" -> VolcVideo_poll_task_result(resp, tid, n, PollLimit)
      [] s = "VolcJiMeng" -> VolcJiMeng_poll(resp, tid, n, PollLimit)
      [] OTHER -> GoogleVeo_poll_operation(resp, tid, n,
                                           PollLimit * GoogleVeo_poll_interval)

RelocStep(s, dl, up) ==
    CASE s = "Sora" -> Sora_save_video_to_oss(dl, up)
      [] s = "GoogleVeo" -> GoogleVeo_upload_video_to_oss(dl, up)
      [] OTHER -> Save_to_oss_fallback(dl, up)

(* Handlers the exception passes on its way out of the public method.      *)
Except(s, e) ==
    IF s = "GoogleVeo" /\ IsException(e) THEN GoogleVeo_except(e) ELSE e

(***************************************************************************)
(* State.                                                                  *)
(***************************************************************************)
VARIABLES
    enable_retry,      \* settings.enable_retry, read when the services are defined
    max_attempts,      \* the arguments of the retry decorator
    wait_multiplier,
    wait_min,
    wait_max,
    svc,               \* the service whose public generate method is running
    reference_images,  \* number of reference images passed to WanxI2I
    image_ok,          \* the base64 image passed to GoogleVeo decodes
    pc,                \* "idle", "submit", "poll", "relocate", "done"
    attempt_number,    \* attempt number of the retry wrapper in progress
    invoked,           \* invocations of the retry-decorated operation in this call
    submits,           \* submit requests sent to the vendor in this call
    lastSubmit,        \* the vendor's answer to the latest submit request
    submitTransient,   \* every failed submit of this call was a connection
                       \* failure or a 5xx response
    sleeps,            \* backoff delays slept by the retry wrapper in this call
    lastExc,           \* exception raised by the latest failed invocation
    task_id,           \* id of the job being polled
    pollCount,         \* status requests issued for this job
    pollSeen,          \* the kinds of answers this job's status requests got
    lastResp,          \* the answer to the latest status request of this job
    pollSleeps,        \* poll-interval sleeps made for this job
    queries,           \* status requests issued in this call
    jobEnd,            \* how the poll loop of this job ended
    nres,              \* number of raw results to relocate
    urls,              \* URL returned by each relocation so far
    downloads,         \* downloads of a raw result in this call
    uploads,           \* OSS put_object attempts in this call
    outcome            \* what the public method returned or raised

(* The process-wide oss_service and the coroutines that use it.            *)
VARIABLES
    max_file_size,     \* oss_service.max_file_size
    writer,            \* the coroutine that last assigned max_file_size
    today,             \* the date datetime.now() returns
    ossPc,             \* position of each coroutine that uses oss_service
    ossArgs,           \* filename and content size of each coroutine's call
    original_max_size, \* the local variable of each upload_from_url call
    reads,             \* the size checks made: who compared against what
    puts,              \* the put_object calls that succeeded, in order
    ossOutcome,        \* how each coroutine's call ended
    ossResult          \* what each coroutine's upload_file returned or raised

OrchVars == <<enable_retry, max_attempts, wait_multiplier, wait_min, wait_max,
              svc, reference_images, image_ok, pc, attempt_number, invoked,
              submits, lastSubmit, submitTransient, sleeps, lastExc, task_id,
              pollCount, pollSeen, lastResp, pollSleeps, queries, jobEnd,
              nres, urls, downloads, uploads, outcome>>

OssVars == <<max_file_size, writer, today, ossPc, ossArgs, original_max_size,
             reads, puts, ossOutcome, ossResult>>

(* GoogleVeoService.extend_video.                                          *)
VARIABLES
    google_file_id,    \* the caller passed a google_file_id
    temp_files         \* the temporary files of this call that exist on disk

ExtendVars == <<google_file_id, temp_files>>

(* SoraService._save_video_to_oss.                                         *)
VARIABLES
    temp_path,         \* the local variable temp_path of the running attempt
    unlinked           \* the files os.unlink has been called on

SaveVars == <<temp_path, unlinked>>

(* The handler of POST /api/video-extension/extend.                        *)
VARIABLES
    request_model,     \* request.model
    response           \* what the handler returned or raised

RouteVars == <<request_model, response>>

(* The tail of WanxI2IService.generate_image.                              *)
VARIABLES
    results,           \* output.results of the last answer: has each a url
    stored             \* the images of this call that were put into OSS

I2IVars == <<results, stored>>

vars == <<OrchVars, OssVars, ExtendVars, SaveVars, RouteVars, I2IVars>>

NoEnd == [act |-> "none", exc |-> NoExc, payload |-> 0]

NoOutcome == [kind |-> "none", exc |-> NoExc, payload |-> 0, fields |-> {}]

(* The keys of the value a public generate method returns; relocated tells *)
(* whether the result went through the relocation step.  WanxI2I and       *)
(* VolcJiMeng return a bare list of URLs, Wanx the vendor's response body. *)
ResultFields(s, relocated) ==
    CASE s = "Wanx" -> {"output", "request_id"}
      [] s = "WanxKf2v" ->
            {"task_id", "task_status"} \cup
            (IF relocated THEN {"video_url", "temp_video_url"} ELSE {})
      [] s = "VolcVideo" -> {"status", "video_url", "temp_video_url"}
      [] s = "Qwen" -> {"image_url", "orig_prompt", "temp_image_url",
                        "width", "height"}
      [] s = "Sora" -> {"video_url", "temp_video_url", "model", "duration",
                        "prompt"}
      [] s = "GoogleVeo" -> {"video_url", "google_file_id", "prompt",
                             "duration", "resolution", "aspect_ratio",
                             "model"}
      [] OTHER -> {}

(***************************************************************************)
(* oss_service: one OSSService instance shared by every request.  All      *)
(* callers run as coroutines of one event loop; upload_file is a plain     *)
(* (synchronous) method, so a coroutine gives the loop to another one only *)
(* at an await.                                                            *)
(***************************************************************************)
oss_max_file_size == 50 * 1024 * 1024

Limit(n) == [finite |-> TRUE, bytes |-> n]

(* float('inf')                                                            *)
Infinity == [finite |-> FALSE, bytes |-> 0]

(* Coroutines running upload_from_url (a relocation) and request handlers  *)
(* calling upload_file directly.                                           *)
Relocators == {"r1", "r2"}

Direct == {"d1"}

OssProcs == Relocators \cup Direct

Filenames == {"a.mp4", "b.mp4"}

(* The values uuid.uuid4().hex[:8] can take, scaled to two.                *)
UniqueIds == {"0a", "0b"}

Days == <<"2025/01/27", "2025/01/28">>

(* Content sizes: at the configured limit and above it.                    *)
FileSizes == {oss_max_file_size, oss_max_file_size + 1}

NoArgs == [filename |-> "none", size |-> 0]

(* OSSService._generate_object_key with use_date_path=True:                *)
(* category/yyyy/mm/dd/<unique_id>_<name><ext>.                            *)
OSS_generate_object_key(category, filename, unique_id, date_path) ==
    category \o "/" \o date_path \o "/" \o unique_id \o "_" \o filename

(* file_size > self.max_file_size                                          *)
Exceeds_or_equal(size, limit) == limit.finite /\ size >= limit.bytes

Exceeds(size, limit) == limit.finite /\ size > limit.bytes

(* OSSService.upload_file: the size check, then put_object; both failures  *)
(* leave as ApiError.                                                      *)
OSS_upload_file(size, limit, up) ==
    CASE Exceeds(size, limit) ->
            Raise(ApiError([message |-> "upload failed",
                            detail |-> "str_e"]))
      [] up = "fail" ->
            Raise(ApiError([message |-> "upload failed",
                            detail |-> "oss_error"]))
      [] OTHER -> Return

(* The finally clause of upload_from_url.                                  *)
upload_from_url_no_finally(original, current) == current

upload_from_url_finally(original, current) == original

(* The positions at which a coroutine is suspended at an await, has not    *)
(* started or is over; at "upload" it is inside synchronous code.          *)
Yields_everywhere(pcv) == TRUE

Yields(pcv) == pcv # "upload"

NoResult == [act |-> "none"]

(* OSSService._get_public_url                                              *)
OSS_get_public_url(object_key) == "https://bucket.endpoint/" \o object_key

(* What upload_file returns or raises once its outcome r is known: the     *)
(* dict built from the object key, its URL and the content size, or the    *)
(* exception.                                                              *)
OSS_upload_file_result(r, object_key, size) ==
    IF r.act = "return"
    THEN [act |-> "return", object_key |-> object_key,
          url |-> OSS_get_public_url(object_key), size |-> size]
    ELSE [act |-> "raise", exc |-> r.exc]

OssInit ==
    /\ max_file_size = Limit(oss_max_file_size)
    /\ writer = "init"
    /\ today = 1
    /\ ossPc = [p \in OssProcs |-> "idle"]
    /\ ossArgs = [p \in OssProcs |-> NoArgs]
    /\ original_max_size = [p \in Relocators |-> Limit(oss_max_file_size)]
    /\ reads = {}
    /\ puts = <<>>
    /\ ossOutcome = [p \in OssProcs |-> "none"]
    /\ ossResult = [p \in OssProcs |-> NoResult]

ExtendInit ==
    /\ google_file_id = FALSE
    /\ temp_files = {}

(* temp_path = None                                                        *)
NoPath == [attempt |-> 0, kind |-> "none"]

SaveInit ==
    /\ temp_path = NoPath
    /\ unlinked = {}

NoResponse == [kind |-> "none", status_code |-> 0, exc |-> NoExc,
               message |-> "none", detail |-> "none"]

RouteInit ==
    /\ request_model = "none"
    /\ response = NoResponse

I2IInit ==
    /\ results = <<>>
    /\ stored = {}

Idle ==
    /\ svc = "none"
    /\ reference_images = 0
    /\ image_ok = TRUE
    /\ pc = "idle"
    /\ attempt_number = 1
    /\ invoked = 0
    /\ submits = 0
    /\ lastSubmit = "none"
    /\ submitTransient = TRUE
    /\ sleeps = <<>>
    /\ lastExc = NoExc
    /\ task_id = "none"
    /\ pollCount = 0
    /\ pollSeen = {}
    /\ lastResp = "none"
    /\ pollSleeps = 0
    /\ queries = 0
    /\ jobEnd = NoEnd
    /\ nres = 0
    /\ urls = <<>>
    /\ downloads = 0
    /\ uploads = 0
    /\ outcome = NoOutcome

(* Every decorated service operation passes max_attempts=3,                *)
(* wait_multiplier=1, wait_min=2, wait_max=10.                             *)
Init ==
    /\ enable_retry \in BOOLEAN
    /\ max_attempts = RetryMaxAttempts
    /\ wait_multiplier = WaitMultiplier
    /\ wait_min = WaitMin
    /\ wait_max = WaitMax
    /\ Idle
    /\ OssInit
    /\ ExtendInit
    /\ SaveInit
    /\ RouteInit
    /\ I2IInit

Config == <<enable_retry, max_attempts, wait_multiplier, wait_min, wait_max>>

(* A request handler calls the public generate method of service s.        *)
Call(s, r) ==
    /\ pc = "idle"
    /\ svc' = s
    /\ reference_images' = r
    /\ image_ok' \in (IF s = "GoogleVeo" THEN BOOLEAN ELSE {TRUE})
    /\ pc' = "submit"
    /\ attempt_number' = 1
    /\ invoked' = 0
    /\ submits' = 0
    /\ lastSubmit' = "none"
    /\ submitTransient' = TRUE
    /\ sleeps' = <<>>
    /\ lastExc' = NoExc
    /\ task_id' = "none"
    /\ pollCount' = 0
    /\ pollSeen' = {}
    /\ lastResp' = "none"
    /\ pollSleeps' = 0
    /\ queries' = 0
    /\ jobEnd' = NoEnd
    /\ nres' = 0
    /\ urls' = <<>>
    /\ downloads' = 0
    /\ uploads' = 0
    /\ outcome' = NoOutcome
    /\ UNCHANGED Config
    /\ UNCHANGED <<OssVars, ExtendVars, SaveVars, RouteVars, I2IVars>>

(* An exception e leaves the step `stage`: the retry wrapper, when the     *)
(* step runs inside one, sleeps and starts the wrapped function again      *)
(* until stop_after_attempt; otherwise the exception reaches the caller.   *)
OnRaise(e, stage) ==
    LET e2 == Except(svc, e)
        wrapped == stage \in RetryScope(svc) /\ retry_decorator(svc, enable_retry)
    IN
    /\ lastExc' = e2
    /\ IF /\ wrapped
          /\ retry_if_exception_type(e2)
          /\ ~stop_after_attempt(attempt_number, max_attempts)
       THEN /\ sleeps' = Append(sleeps,
                   wait_exponential(wait_multiplier, wait_min, wait_max,
                                    attempt_number))
            /\ attempt_number' = attempt_number + 1
            /\ pc' = RestartPc(svc)
            /\ urls' = IF svc = "Gemini" THEN urls ELSE <<>>
            /\ outcome' = outcome
       ELSE /\ outcome' = [kind |-> "raise", payload |-> 0, fields |-> {},
                            exc |-> IF wrapped THEN retry_error(e2, Reraise)
                                    ELSE e2]
            /\ pc' = "done"
            /\ UNCHANGED <<sleeps, attempt_number, urls>>

SubmitRespOf(s) ==
    IF s = "GoogleVeo" THEN SubmitResp ELSE SubmitResp \ {"ok_done", "quota"}

(* One invocation of the submit code: _create_task / _submit_task, or the  *)
(* submit request at the head of generate_image / generate_text_to_video.  *)
Submit(resp) ==
    /\ pc = "submit"
    /\ svc \in Services
    /\ resp \in SubmitRespOf(svc)
    /\ LET v == Validate(svc, reference_images, image_ok)
           sent == v.act = "return"
           r == IF sent THEN SubmitStep(svc, resp, reference_images) ELSE v
       IN
       /\ invoked' = IF RestartPc(svc) = "submit" THEN invoked + 1 ELSE invoked
       /\ submits' = IF sent THEN submits + 1 ELSE submits
       /\ lastSubmit' = IF sent THEN resp ELSE "not_sent"
       /\ submitTransient' = (submitTransient /\
                               (r.act = "return" \/
                                (sent /\ resp \in {"neterr", "http5xx"})))
       /\ pollCount' = 0
       /\ pollSeen' = {}
       /\ lastResp' = "none"
       /\ pollSleeps' = 0
       /\ jobEnd' = IF r.act = "return" /\ resp = "ok_done"
                    THEN [act |-> "return", exc |-> NoExc, payload |-> 0]
                    ELSE NoEnd
       /\ IF r.act = "return"
          THEN /\ task_id' \in (IF HasPoll(svc) THEN JobIds ELSE {"none"})
               /\ IF HasPoll(svc) /\ resp # "ok_done"
                  THEN pc' = "poll" /\ nres' = 0
                  ELSE pc' = "relocate" /\ nres' = 1
               /\ UNCHANGED <<attempt_number, sleeps, lastExc, urls, outcome>>
          ELSE /\ task_id' = "none"
               /\ nres' = 0
               /\ OnRaise(r.exc, "submit")
    /\ UNCHANGED <<Config, svc, reference_images, image_ok, queries,
                   downloads, uploads>>
    /\ UNCHANGED <<OssVars, ExtendVars, SaveVars, RouteVars, I2IVars>>

PollIter(s, resp, tid) ==
    CASE s = "Wanx" -> Wanx_poll_iter(resp, tid)
      [] s = "WanxI2I" -> WanxI2I_poll_iter(resp, tid)
      [] s = "WanxKf2v" -> WanxKf2v_poll_iter(resp, tid)
      [] s = "VolcVideo" -> VolcVideo_poll_iter(resp, tid)
      [] OTHER -> VolcJiMeng_poll_iter(resp, tid)

(* VolcJiMeng and GoogleVeo sleep before each status request, the others   *)
(* after an answer that keeps the loop going.                              *)
Slept(s, resp, tid) ==
    IF s \in {"VolcJiMeng", "GoogleVeo"} THEN 1
    ELSE IF PollIter(s, resp, tid).act = "sleep" THEN 1 ELSE 0

PollCommon(resp) ==
    /\ pc = "poll"
    /\ resp \in PollResp
    /\ pollCount' = pollCount + 1
    /\ pollSeen' = pollSeen \cup {resp}
    /\ lastResp' = resp
    /\ queries' = queries + 1
    /\ pollSleeps' = pollSleeps + Slept(svc, resp, task_id)
    /\ UNCHANGED <<Config, svc, reference_images, image_ok, invoked,
                   submits, lastSubmit, submitTransient, task_id, downloads,
                   uploads>>
    /\ UNCHANGED <<OssVars, ExtendVars, SaveVars, RouteVars, I2IVars>>

(* An iteration after which the loop goes on.                              *)
PollSleep(resp) ==
    /\ PollCommon(resp)
    /\ PollStep(svc, resp, task_id, pollCount + 1).act = "sleep"
    /\ UNCHANGED <<pc, attempt_number, sleeps, lastExc, jobEnd, nres, urls,
                   outcome>>

(* An iteration that raises, the exhaustion of the attempts included.      *)
PollRaise(resp) ==
    /\ PollCommon(resp)
    /\ LET r == PollStep(svc, resp, task_id, pollCount + 1) IN
       /\ r.act = "raise"
       /\ jobEnd' = [act |-> "raise", exc |-> r.exc, payload |-> 0]
       /\ nres' = 0
       /\ OnRaise(r.exc, "poll")

NresOf(s, resp) ==
    CASE s = "WanxI2I" -> 0 .. MaxImages
      [] s = "WanxKf2v" -> {0, 1}
      [] s = "GoogleVeo" -> IF resp = "failed" THEN {0} ELSE {1}
      [] OTHER -> {1}

(* An iteration that returns the result; k raw results are extracted.      *)
PollReturn(resp, k) ==
    /\ PollCommon(resp)
    /\ LET n == pollCount + 1
           r == PollStep(svc, resp, task_id, n)
       IN
       /\ r.act = "return"
       /\ k \in NresOf(svc, resp)
       /\ jobEnd' = [act |-> "return", exc |-> NoExc, payload |-> n]
       /\ nres' = k
       /\ CASE ~HasReloc(svc) ->
                 /\ outcome' = [kind |-> "return", exc |-> NoExc,
                                payload |-> n,
                                fields |-> ResultFields(svc, FALSE)]
                 /\ urls' = <<"vendor">>
                 /\ pc' = "done"
                 /\ UNCHANGED <<attempt_number, sleeps, lastExc>>
            [] HasReloc(svc) /\ k > 0 ->
                 /\ pc' = "relocate"
                 /\ UNCHANGED <<attempt_number, sleeps, lastExc, urls,
                                outcome>>
            [] svc = "WanxI2I" /\ k = 0 ->
                 /\ outcome' = [kind |-> "raise", payload |-> 0,
                                fields |-> {},
                                exc |-> ApiError([message |-> "no image",
                                                  detail |-> "fixed"])]
                 /\ pc' = "done"
                 /\ UNCHANGED <<attempt_number, sleeps, lastExc, urls>>
            [] svc = "WanxKf2v" /\ k = 0 ->
                 /\ outcome' = [kind |-> "return", exc |-> NoExc,
                                payload |-> n,
                                fields |-> ResultFields(svc, FALSE)]
                 /\ pc' = "done"
                 /\ UNCHANGED <<attempt_number, sleeps, lastExc, urls>>
            [] OTHER -> OnRaise(AttributeError, "poll")

(* The task running the call is cancelled while the poll loop is suspended *)
(* at an await: in asyncio.sleep, or (inflight) in the status request it   *)
(* has just dispatched.  CancelledError is raised at that await.  Loops    *)
(* that sleep after the answer have no sleep before their first request.   *)
Cancel(inflight) ==
    /\ pc = "poll"
    /\ inflight \/ svc \in {"VolcJiMeng", "GoogleVeo"} \/ pollCount > 0
    /\ pollCount' = IF inflight THEN pollCount + 1 ELSE pollCount
    /\ queries' = IF inflight THEN queries + 1 ELSE queries
    /\ jobEnd' = [act |-> "raise", exc |-> CancelledError, payload |-> 0]
    /\ nres' = 0
    /\ OnRaise(CancelledError, "poll")
    /\ pollSleeps' = IF inflight /\ svc \in {"VolcJiMeng", "GoogleVeo"}
                     THEN pollSleeps + 1 ELSE pollSleeps
    /\ UNCHANGED <<Config, svc, reference_images, image_ok, invoked, submits,
                   lastSubmit, submitTransient, task_id, pollSeen, lastResp,
                   downloads, uploads>>
    /\ UNCHANGED <<OssVars, ExtendVars, SaveVars, RouteVars, I2IVars>>

(* One relocation: download the raw result, upload it to OSS.              *)
Relocate(dl, up) ==
    /\ pc = "relocate"
    /\ LET r == RelocStep(svc, dl, up) IN
       /\ invoked' = IF RestartPc(svc) = "relocate" THEN invoked + 1
                     ELSE invoked
       /\ downloads' = downloads + 1
       /\ uploads' = IF dl = "ok" THEN uploads + 1 ELSE uploads
       /\ IF r.act = "return"
          THEN /\ urls' = Append(urls, r.url)
               /\ IF Len(urls) + 1 >= nres
                  THEN /\ pc' = "done"
                       /\ outcome' = [kind |-> "return", exc |-> NoExc,
                                      payload |-> jobEnd.payload,
                                      fields |-> ResultFields(svc, TRUE)]
                  ELSE UNCHANGED <<pc, outcome>>
               /\ UNCHANGED <<attempt_number, sleeps, lastExc>>
          ELSE OnRaise(r.exc, "relocate")
    /\ UNCHANGED <<Config, svc, reference_images, image_ok, submits,
                   lastSubmit, submitTransient, task_id, pollCount, pollSeen,
                   lastResp, pollSleeps, queries, jobEnd, nres>>
    /\ UNCHANGED <<OssVars, ExtendVars, SaveVars, RouteVars, I2IVars>>

(* What the end of a call does to the state of the call.                   *)
FinishCall ==
    /\ pc = "done"
    /\ svc' = "none"
    /\ reference_images' = 0
    /\ image_ok' = TRUE
    /\ pc' = "idle"
    /\ attempt_number' = 1
    /\ invoked' = 0
    /\ submits' = 0
    /\ lastSubmit' = "none"
    /\ submitTransient' = TRUE
    /\ sleeps' = <<>>
    /\ lastExc' = NoExc
    /\ task_id' = "none"
    /\ pollCount' = 0
    /\ pollSeen' = {}
    /\ lastResp' = "none"
    /\ pollSleeps' = 0
    /\ queries' = 0
    /\ jobEnd' = NoEnd
    /\ nres' = 0
    /\ urls' = <<>>
    /\ downloads' = 0
    /\ uploads' = 0
    /\ outcome' = NoOutcome
    /\ UNCHANGED Config

(* The call is over; the process serves the next request.                  *)
Finish ==
    /\ FinishCall
    /\ UNCHANGED <<OssVars, ExtendVars, SaveVars, RouteVars, I2IVars>>

Next ==
    \/ \E s \in Services :
          \E r \in (IF s = "WanxI2I"
                    THEN {MAX_REFERENCE_IMAGES, MAX_REFERENCE_IMAGES + 1}
                    ELSE {0}) : Call(s, r)
    \/ \E resp \in SubmitResp : Submit(resp)
    \/ \E resp \in PollResp : PollSleep(resp)
    \/ \E resp \in PollResp : PollRaise(resp)
    \/ \E resp \in PollResp : \E k \in 0 .. MaxImages : PollReturn(resp, k)
    \/ \E dl \in IOResult : \E up \in IOResult : Relocate(dl, up)
    \/ \E inflight \in BOOLEAN : Cancel(inflight)
    \/ Finish

Spec == Init /\ [][Next]_vars

(***************************************************************************)
(* The retry decorator on its own: GeminiImageService._request_image       *)
(* decorated with arguments drawn from bounded sets.                       *)
(***************************************************************************)
retry_decorator_max_attempts(m) == IF m = 0 THEN max_retry_attempts ELSE m

InitRetry ==
    /\ enable_retry \in BOOLEAN
    /\ max_attempts \in {retry_decorator_max_attempts(m) :
                            m \in 0 .. MaxAttemptsParam}
    /\ wait_multiplier \in 1 .. 3
    /\ wait_min \in {0, 2}
    /\ wait_max \in {4, 10}
    /\ Idle
    /\ OssInit
    /\ ExtendInit
    /\ SaveInit
    /\ RouteInit
    /\ I2IInit

CallRequestImage == Call("Gemini", 0)

RequestImage(resp) ==
    /\ pc = "submit"
    /\ svc = "Gemini"
    /\ LET r == Gemini_request_image(resp) IN
       /\ invoked' = invoked + 1
       /\ submits' = submits + 1
       /\ lastSubmit' = resp
       /\ submitTransient' = (submitTransient /\
                               (r.act = "return" \/
                                resp \in {"neterr", "http5xx"}))
       /\ IF r.act = "return"
          THEN /\ outcome' = [kind |-> "return", exc |-> NoExc,
                               payload |-> 0, fields |-> {}]
               /\ pc' = "done"
               /\ UNCHANGED <<attempt_number, sleeps, lastExc, urls>>
          ELSE OnRaise(r.exc, "submit")
    /\ UNCHANGED <<Config, svc, reference_images, image_ok, task_id,
                   pollCount, pollSeen, lastResp, pollSleeps, queries, jobEnd,
                   nres, downloads, uploads>>
    /\ UNCHANGED <<OssVars, ExtendVars, SaveVars, RouteVars, I2IVars>>

NextRetry ==
    \/ CallRequestImage
    \/ \E resp \in SubmitResp \ {"ok_done", "quota"} : RequestImage(resp)
    \/ Finish

SpecRetry == InitRetry /\ [][NextRetry]_vars

(***************************************************************************)
(* GeminiImageService.generate_images: one _request_image call, each under *)
(* its own retry wrapper, and one _save_image_to_oss per requested image.  *)
(***************************************************************************)
Gemini_save_image_to_oss(up) ==
    IF OSS_upload_file(0, Limit(oss_max_file_size), up).act = "return"
    THEN [act |-> "return", exc |-> NoExc, url |-> "oss"]
    ELSE [act |-> "return", exc |-> NoExc, url |-> "data"]

CallGenerateImages(num_images) ==
    /\ pc = "idle"
    /\ svc' = "Gemini"
    /\ nres' = num_images
    /\ IF num_images <= 0
       THEN /\ pc' = "done"
            /\ outcome' = [kind |-> "raise", payload |-> 0, fields |-> {},
                            exc |-> ApiError([message |-> "count must be positive"])]
       ELSE /\ pc' = "submit"
            /\ outcome' = NoOutcome
    /\ UNCHANGED <<Config, reference_images, image_ok, attempt_number,
                   invoked, submits, lastSubmit, submitTransient, sleeps,
                   lastExc, task_id, pollCount, pollSeen, lastResp,
                   pollSleeps, queries, jobEnd, urls, downloads, uploads>>
    /\ UNCHANGED <<OssVars, ExtendVars, SaveVars, RouteVars, I2IVars>>

(* One invocation of _request_image for the image of index Len(urls), and  *)
(* on its success the upload of that image.                                *)
GenerateImagesStep(resp, up) ==
    /\ pc = "submit"
    /\ svc = "Gemini"
    /\ LET r == Gemini_request_image(resp) IN
       /\ invoked' = invoked + 1
       /\ submits' = submits + 1
       /\ lastSubmit' = resp
       /\ submitTransient' = (submitTransient /\
                               (r.act = "return" \/
                                resp \in {"neterr", "http5xx"}))
       /\ IF r.act = "return"
          THEN /\ urls' = Append(urls, Gemini_save_image_to_oss(up).url)
               /\ uploads' = uploads + 1
               /\ attempt_number' = 1
               /\ IF Len(urls) + 1 >= nres
                  THEN /\ pc' = "done"
                       /\ outcome' = [kind |-> "return", exc |-> NoExc,
                                      payload |-> 0, fields |-> {}]
                  ELSE UNCHANGED <<pc, outcome>>
               /\ UNCHANGED <<sleeps, lastExc>>
          ELSE /\ OnRaise(r.exc, "submit")
               /\ UNCHANGED uploads
    /\ UNCHANGED <<Config, svc, reference_images, image_ok, task_id,
                   pollCount, pollSeen, lastResp, pollSleeps, queries, jobEnd,
                   nres, downloads>>
    /\ UNCHANGED <<OssVars, ExtendVars, SaveVars, RouteVars, I2IVars>>

NextGemini ==
    \/ \E n \in 0 .. MaxImages : CallGenerateImages(n)
    \/ \E resp \in SubmitResp \ {"ok_done", "quota"} : \E up \in IOResult :
          GenerateImagesStep(resp, up)

(* Every public generate method, Gemini's included.                        *)
NextAll == Next \/ NextGemini

SpecAll == Init /\ [][NextAll]_vars

(***************************************************************************)
(* GoogleVeoService.extend_video, step by step: the source video is        *)
(* fetched from OSS and uploaded to Google unless the caller passed a      *)
(* google_file_id; then the extension task is created and polled, its      *)
(* result downloaded and uploaded to OSS.  A temporary file is named by    *)
(* the attempt that created it and by its content.                         *)
(***************************************************************************)
TempFile(attempt, kind) == [attempt |-> attempt, kind |-> kind]

(* The first step of an attempt.                                           *)
ExtendStart(has_file_id) == IF has_file_id THEN "create" ELSE "source"

(* GoogleVeoService._cleanup_temp_files                                    *)
GoogleVeo_cleanup_temp_files(files, file_paths) == files \ file_paths

InitExtend ==
    /\ enable_retry \in BOOLEAN
    /\ max_attempts = RetryMaxAttempts
    /\ wait_multiplier = WaitMultiplier
    /\ wait_min = WaitMin
    /\ wait_max = WaitMax
    /\ Idle
    /\ OssInit
    /\ ExtendInit
    /\ SaveInit
    /\ RouteInit
    /\ I2IInit

CallExtendVideo(has_file_id) ==
    /\ pc = "idle"
    /\ svc' = "GoogleVeo"
    /\ google_file_id' = has_file_id
    /\ pc' = ExtendStart(has_file_id)
    /\ invoked' = 1
    /\ temp_files' = {}
    /\ UNCHANGED <<Config, reference_images, image_ok, attempt_number,
                   submits, lastSubmit, submitTransient, sleeps, lastExc,
                   task_id, pollCount, pollSeen, lastResp, pollSleeps,
                   queries, jobEnd, nres, urls, downloads, uploads, outcome>>
    /\ UNCHANGED <<OssVars, SaveVars, RouteVars, I2IVars>>

(* An exception reaches the except clause of extend_video and, re-raised   *)
(* as ApiError, the retry wrapper.                                         *)
ExtendRaise(e) ==
    LET e2 == Except("GoogleVeo", e)
        wrapped == retry_decorator("GoogleVeo", enable_retry)
    IN
    /\ lastExc' = e2
    /\ IF /\ wrapped
          /\ retry_if_exception_type(e2)
          /\ ~stop_after_attempt(attempt_number, max_attempts)
       THEN /\ sleeps' = Append(sleeps,
                   wait_exponential(wait_multiplier, wait_min, wait_max,
                                    attempt_number))
            /\ attempt_number' = attempt_number + 1
            /\ invoked' = invoked + 1
            /\ pc' = ExtendStart(google_file_id)
            /\ pollCount' = 0
            /\ UNCHANGED outcome
       ELSE /\ outcome' = [kind |-> "raise", payload |-> 0, fields |-> {},
                            exc |-> IF wrapped THEN retry_error(e2, Reraise)
                                    ELSE e2]
            /\ pc' = "done"
            /\ UNCHANGED <<sleeps, attempt_number, invoked, pollCount>>

ExtendUnchanged ==
    /\ UNCHANGED <<Config, svc, reference_images, image_ok, lastSubmit,
                   submitTransient, task_id, pollSeen, pollSleeps, jobEnd,
                   nres, urls, google_file_id>>
    /\ UNCHANGED <<OssVars, SaveVars, RouteVars, I2IVars>>

(* _download_video_from_oss: mkstemp, then the GET request.                *)
DownloadSource(dl) ==
    /\ pc = "source"
    /\ temp_files' = temp_files \cup {TempFile(attempt_number, "source")}
    /\ downloads' = downloads + 1
    /\ IF dl = "ok"
       THEN /\ pc' = "google_upload"
            /\ UNCHANGED <<attempt_number, invoked, sleeps, lastExc,
                           pollCount, outcome>>
       ELSE ExtendRaise(ApiError([message |-> "download from OSS failed",
                                  detail |-> "str_e"]))
    /\ UNCHANGED <<submits, lastResp, queries, uploads>>
    /\ ExtendUnchanged

(* _upload_video_to_google, then the cleanup of the source file.           *)
UploadToGoogle(up) ==
    /\ pc = "google_upload"
    /\ uploads' = uploads + 1
    /\ IF up = "ok"
       THEN /\ pc' = "create"
            /\ temp_files' = GoogleVeo_cleanup_temp_files(temp_files,
                                 {TempFile(attempt_number, "source")})
            /\ UNCHANGED <<attempt_number, invoked, sleeps, lastExc,
                           pollCount, outcome>>
       ELSE /\ ExtendRaise(ApiError([message |-> "upload to Google failed",
                                     detail |-> "str_e"]))
            /\ UNCHANGED temp_files
    /\ UNCHANGED <<submits, lastResp, queries, downloads>>
    /\ ExtendUnchanged

(* _create_extension_task                                                  *)
CreateExtensionTask(resp) ==
    /\ pc = "create"
    /\ resp \in {"ok", "ok_done", "quota", "neterr"}
    /\ submits' = submits + 1
    /\ LET r == GoogleVeo_generate_videos(resp) IN
       IF r.act = "return"
       THEN /\ pc' = IF resp = "ok_done" THEN "result" ELSE "poll"
            /\ pollCount' = 0
            /\ UNCHANGED <<attempt_number, invoked, sleeps, lastExc, outcome>>
       ELSE ExtendRaise(ApiError([message |-> "create extension task failed",
                                  detail |-> "str_e"]))
    /\ UNCHANGED <<lastResp, queries, downloads, uploads, temp_files>>
    /\ ExtendUnchanged

(* One sleep and refresh of _poll_operation.                               *)
PollOperation(resp) ==
    /\ pc = "poll"
    /\ resp \in {"running", "succeeded", "neterr"}
    /\ queries' = queries + 1
    /\ lastResp' = resp
    /\ LET r == GoogleVeo_poll_operation(resp, "j1", pollCount + 1,
                                         PollLimit * GoogleVeo_poll_interval)
       IN
       CASE r.act = "sleep" ->
               /\ pollCount' = pollCount + 1
               /\ UNCHANGED <<pc, attempt_number, invoked, sleeps, lastExc,
                              outcome>>
         [] r.act = "return" ->
               /\ pollCount' = pollCount + 1
               /\ pc' = "result"
               /\ UNCHANGED <<attempt_number, invoked, sleeps, lastExc,
                              outcome>>
         [] OTHER -> ExtendRaise(r.exc)
    /\ UNCHANGED <<submits, downloads, uploads, temp_files>>
    /\ ExtendUnchanged

(* _download_video_from_google: mkstemp, then download and save.           *)
DownloadResult(dl) ==
    /\ pc = "result"
    /\ temp_files' = temp_files \cup {TempFile(attempt_number, "result")}
    /\ downloads' = downloads + 1
    /\ IF dl = "ok"
       THEN /\ pc' = "oss_upload"
            /\ UNCHANGED <<attempt_number, invoked, sleeps, lastExc,
                           pollCount, outcome>>
       ELSE ExtendRaise(ApiError([message |-> "download from Google failed",
                                  detail |-> "str_e"]))
    /\ UNCHANGED <<submits, lastResp, queries, uploads>>
    /\ ExtendUnchanged

(* _upload_video_to_oss, the cleanup of the result file, the return.       *)
UploadResultToOss(up) ==
    /\ pc = "oss_upload"
    /\ uploads' = uploads + 1
    /\ LET r == GoogleVeo_upload_video_to_oss("ok", up) IN
       IF r.act = "return"
       THEN /\ pc' = "done"
            /\ temp_files' = GoogleVeo_cleanup_temp_files(temp_files,
                                 {TempFile(attempt_number, "result")})
            /\ outcome' = [kind |-> "return", exc |-> NoExc, payload |-> 0,
                            fields |-> {"extended_video_url",
                                        "google_file_id",
                                        "original_video_url", "prompt",
                                        "duration", "resolution",
                                        "aspect_ratio", "model"}]
            /\ UNCHANGED <<attempt_number, invoked, sleeps, lastExc,
                           pollCount>>
       ELSE /\ ExtendRaise(r.exc)
            /\ UNCHANGED temp_files
    /\ UNCHANGED <<submits, lastResp, queries, downloads>>
    /\ ExtendUnchanged

(* The call is over; what it left on disk is no longer followed.           *)
FinishExtend ==
    /\ pc = "done"
    /\ svc' = "none"
    /\ pc' = "idle"
    /\ attempt_number' = 1
    /\ invoked' = 0
    /\ submits' = 0
    /\ sleeps' = <<>>
    /\ lastExc' = NoExc
    /\ pollCount' = 0
    /\ lastResp' = "none"
    /\ queries' = 0
    /\ downloads' = 0
    /\ uploads' = 0
    /\ outcome' = NoOutcome
    /\ google_file_id' = FALSE
    /\ temp_files' = {}
    /\ UNCHANGED <<Config, reference_images, image_ok, lastSubmit,
                   submitTransient, task_id, pollSeen, pollSleeps, jobEnd,
                   nres, urls>>
    /\ UNCHANGED <<OssVars, SaveVars, RouteVars, I2IVars>>

NextExtend ==
    \/ \E g \in BOOLEAN : CallExtendVideo(g)
    \/ \E dl \in IOResult : DownloadSource(dl)
    \/ \E up \in IOResult : UploadToGoogle(up)
    \/ \E resp \in SubmitResp : CreateExtensionTask(resp)
    \/ \E resp \in PollResp : PollOperation(resp)
    \/ \E dl \in IOResult : DownloadResult(dl)
    \/ \E up \in IOResult : UploadResultToOss(up)
    \/ FinishExtend

SpecExtend == InitExtend /\ [][NextExtend]_vars

(***************************************************************************)
(* The handler of POST /api/video-extension/extend: the model check, the   *)
(* call of google_veo_service.extend_video (without google_file_id), and   *)
(* the two except clauses.                                                 *)
(***************************************************************************)
(* The keys of settings.video_extension_models.                            *)
video_extension_models == {"google-veo-3.1"}

RequestModels == {"google-veo-3.1", "sora-extend"}

HTTPException(status_code, message, detail) ==
    [kind |-> "HTTPException", status_code |-> status_code, exc |-> NoExc,
     message |-> message, detail |-> detail]

Escapes(e) ==
    [kind |-> "raise", status_code |-> 0, exc |-> e, message |-> "none",
     detail |-> "none"]

(* isinstance(e, ApiError)                                                 *)
IsApiError(e) ==
    e.type \in {"ApiError", "DashScopeApiError", "TaskFailedError",
                "TaskTimeoutError"}

(* The attributes ApiError.__init__ sets.                                  *)
ApiErrorAttributes == {"message", "status_code", "detail"}

(* The except clauses of the handler.  `except ApiError` reads e.message   *)
(* and e.details; an exception raised inside an except clause is not       *)
(* caught by the clauses that follow it.                                   *)
Route_except(e) ==
    CASE IsApiError(e) ->
            IF {"message", "details"} \subseteq ApiErrorAttributes
            THEN HTTPException(500, e.message, e.detail)
            ELSE Escapes(AttributeError)
      [] IsException(e) -> HTTPException(500, "video extension failed",
                                         e.message)
      [] OTHER -> Escapes(e)

(* The request arrives: the model check, then the call of extend_video.    *)
RouteRequest(model) ==
    /\ pc = "idle"
    /\ response = NoResponse
    /\ request_model' = model
    /\ CASE model \notin video_extension_models ->
              /\ response' = Route_except(
                     ApiError([message |-> "unsupported model",
                               detail |-> "not in the model list"]))
              /\ UNCHANGED <<svc, pc, invoked, temp_files>>
         [] model = "google-veo-3.1" ->
              /\ svc' = "GoogleVeo"
              /\ pc' = ExtendStart(FALSE)
              /\ invoked' = 1
              /\ temp_files' = {}
              /\ UNCHANGED response
         [] OTHER ->
              /\ response' = Route_except(
                     ApiError([message |-> "model not implemented",
                               detail |-> "not implemented"]))
              /\ UNCHANGED <<svc, pc, invoked, temp_files>>
    /\ UNCHANGED <<Config, reference_images, image_ok, attempt_number,
                   submits, lastSubmit, submitTransient, sleeps, lastExc,
                   task_id, pollCount, pollSeen, lastResp, pollSleeps,
                   queries, jobEnd, nres, urls, downloads, uploads, outcome,
                   google_file_id>>
    /\ UNCHANGED <<OssVars, SaveVars, I2IVars>>

(* extend_video is over: the handler builds the response from the result   *)
(* or passes the exception to its except clauses.                          *)
RouteRespond ==
    /\ pc = "done"
    /\ response = NoResponse
    /\ response' = IF outcome.kind = "return"
                   THEN [kind |-> "return", status_code |-> 200,
                         exc |-> NoExc, message |-> "none",
                         detail |-> "none"]
                   ELSE Route_except(outcome.exc)
    /\ UNCHANGED request_model
    /\ UNCHANGED <<OrchVars, OssVars, ExtendVars, SaveVars, I2IVars>>

(* The request is over.                                                    *)
FinishRoute ==
    /\ response # NoResponse
    /\ svc' = "none"
    /\ pc' = "idle"
    /\ attempt_number' = 1
    /\ invoked' = 0
    /\ submits' = 0
    /\ sleeps' = <<>>
    /\ lastExc' = NoExc
    /\ pollCount' = 0
    /\ lastResp' = "none"
    /\ queries' = 0
    /\ downloads' = 0
    /\ uploads' = 0
    /\ outcome' = NoOutcome
    /\ google_file_id' = FALSE
    /\ temp_files' = {}
    /\ request_model' = "none"
    /\ response' = NoResponse
    /\ UNCHANGED <<Config, reference_images, image_ok, lastSubmit,
                   submitTransient, task_id, pollSeen, pollSleeps, jobEnd,
                   nres, urls>>
    /\ UNCHANGED <<OssVars, SaveVars, I2IVars>>

NextRoute ==
    \/ \E model \in RequestModels : RouteRequest(model)
    \/ \E dl \in IOResult : DownloadSource(dl)
    \/ \E up \in IOResult : UploadToGoogle(up)
    \/ \E resp \in SubmitResp : CreateExtensionTask(resp)
    \/ \E resp \in PollResp : PollOperation(resp)
    \/ \E dl \in IOResult : DownloadResult(dl)
    \/ \E up \in IOResult : UploadResultToOss(up)
    \/ RouteRespond
    \/ FinishRoute

SpecRoute == InitExtend /\ [][NextRoute]_vars

(***************************************************************************)
(* WanxI2IService.generate_image after the poll loop returned: the URLs    *)
(* are extracted from output.results and each is relocated to OSS in turn. *)
(* A vendor result is written TRUE when it carries a url; an image is      *)
(* named by its position in output.results.                                *)
(***************************************************************************)
ResultLists ==
    UNION {[1 .. n -> BOOLEAN] : n \in 0 .. MaxImages}

TempUrl(i) == [image |-> i, kind |-> "temp"]

(* [item.get("url") for item in results], without the test.                *)
WanxI2I_temp_image_urls_unfiltered(rs) == [i \in 1 .. Len(rs) |-> TempUrl(i)]

(* [item.get("url") for item in results if item.get("url")]                *)
WanxI2I_temp_image_urls(rs) ==
    LET P == SelectSeq([i \in 1 .. Len(rs) |-> i], LAMBDA i : rs[i])
    IN [j \in 1 .. Len(P) |-> TempUrl(P[j])]

(* _save_image_to_oss: the OSS URL, or the temporary URL when the          *)
(* relocation raised.                                                      *)
WanxI2I_save_image_to_oss(temp_url, dl, up) ==
    [image |-> temp_url.image, kind |-> Save_to_oss_fallback(dl, up).url]

(* The answer that ends the poll loop carries the results rs.              *)
I2IPollReturn(resp, rs) ==
    /\ pc = "poll"
    /\ svc = "WanxI2I"
    /\ resp \in PollResp
    /\ PollStep(svc, resp, task_id, pollCount + 1).act = "return"
    /\ pollCount' = pollCount + 1
    /\ pollSeen' = pollSeen \cup {resp}
    /\ lastResp' = resp
    /\ queries' = queries + 1
    /\ pollSleeps' = pollSleeps + Slept(svc, resp, task_id)
    /\ jobEnd' = [act |-> "return", exc |-> NoExc, payload |-> pollCount + 1]
    /\ results' = rs
    /\ stored' = {}
    /\ nres' = Len(WanxI2I_temp_image_urls(rs))
    /\ CASE rs = <<>> ->
              OnRaise(ApiError([message |-> "no image", detail |-> "fixed"]),
                      "extract")
         [] WanxI2I_temp_image_urls(rs) = <<>> ->
              OnRaise(ApiError([message |-> "no valid image url",
                                detail |-> "fixed"]), "extract")
         [] OTHER ->
              /\ pc' = "save_images"
              /\ urls' = <<>>
              /\ UNCHANGED <<attempt_number, sleeps, lastExc, outcome>>
    /\ UNCHANGED <<Config, svc, reference_images, image_ok, invoked,
                   submits, lastSubmit, submitTransient, task_id, downloads,
                   uploads>>
    /\ UNCHANGED <<OssVars, ExtendVars, SaveVars, RouteVars>>

(* One turn of the loop over temp_image_urls.                              *)
SaveImage(dl, up) ==
    /\ pc = "save_images"
    /\ LET temp_image_urls == WanxI2I_temp_image_urls(results)
           temp_url == temp_image_urls[Len(urls) + 1]
           permanent_url == WanxI2I_save_image_to_oss(temp_url, dl, up)
       IN
       /\ urls' = Append(urls, permanent_url)
       /\ stored' = IF dl = "ok" /\ up = "ok"
                    THEN stored \cup {temp_url.image} ELSE stored
       /\ IF Len(urls) + 1 >= Len(temp_image_urls)
          THEN /\ pc' = "done"
               /\ outcome' = [kind |-> "return", exc |-> NoExc,
                              payload |-> jobEnd.payload,
                              fields |-> ResultFields(svc, TRUE)]
          ELSE UNCHANGED <<pc, outcome>>
    /\ downloads' = downloads + 1
    /\ uploads' = IF dl = "ok" THEN uploads + 1 ELSE uploads
    /\ UNCHANGED <<Config, svc, reference_images, image_ok, attempt_number,
                   invoked, submits, lastSubmit, submitTransient, sleeps,
                   lastExc, task_id, pollCount, pollSeen, lastResp,
                   pollSleeps, queries, jobEnd, nres, results>>
    /\ UNCHANGED <<OssVars, ExtendVars, SaveVars, RouteVars>>

(* The task is cancelled while a relocation waits for its download.        *)
SaveImageCancel ==
    /\ pc = "save_images"
    /\ downloads' = downloads + 1
    /\ lastExc' = CancelledError
    /\ outcome' = [kind |-> "raise", exc |-> CancelledError, payload |-> 0,
                   fields |-> {}]
    /\ pc' = "done"
    /\ UNCHANGED <<Config, svc, reference_images, image_ok, attempt_number,
                   invoked, submits, lastSubmit, submitTransient, sleeps,
                   task_id, pollCount, pollSeen, lastResp, pollSleeps,
                   queries, jobEnd, nres, urls, uploads>>
    /\ UNCHANGED <<OssVars, ExtendVars, SaveVars, RouteVars, I2IVars>>

(* The call is over; its results are gone with it.                         *)
FinishI2I ==
    /\ FinishCall
    /\ results' = <<>>
    /\ stored' = {}
    /\ UNCHANGED <<OssVars, ExtendVars, SaveVars, RouteVars>>

NextI2I ==
    \/ \E r \in {MAX_REFERENCE_IMAGES, MAX_REFERENCE_IMAGES + 1} :
          Call("WanxI2I", r)
    \/ \E resp \in SubmitResp : Submit(resp)
    \/ \E resp \in PollResp : PollSleep(resp)
    \/ \E resp \in PollResp : PollRaise(resp)
    \/ \E resp \in PollResp : \E rs \in ResultLists : I2IPollReturn(resp, rs)
    \/ \E dl \in IOResult : \E up \in IOResult : SaveImage(dl, up)
    \/ SaveImageCancel
    \/ \E inflight \in BOOLEAN : Cancel(inflight)
    \/ FinishI2I

SpecI2I == Init /\ [][NextI2I]_vars

(***************************************************************************)
(* SoraService._save_video_to_oss, step by step, under its retry wrapper:  *)
(* the GET request, NamedTemporaryFile(delete=False), the write of the     *)
(* content, oss_service.upload_file, and the finally clause that unlinks   *)
(* temp_path when it is set.  rm is the outcome of os.unlink, whose        *)
(* failure is logged and swallowed.                                        *)
(***************************************************************************)
SavePcs == {"download", "create", "write", "upload"}

(* The finally clause: the files os.unlink has been called on.             *)
Sora_no_finally(path, files) == files

Sora_finally(path, files) ==
    IF path = NoPath THEN files ELSE files \cup {path}

(* os.unlink with outcome rm on each of paths: what is left on disk.       *)
Unlink(paths, rm, files) == IF rm = "ok" THEN files \ paths ELSE files

InitSave ==
    /\ enable_retry \in BOOLEAN
    /\ max_attempts = RetryMaxAttempts
    /\ wait_multiplier = WaitMultiplier
    /\ wait_min = WaitMin
    /\ wait_max = WaitMax
    /\ Idle
    /\ OssInit
    /\ ExtendInit
    /\ SaveInit
    /\ RouteInit
    /\ I2IInit

SaveUnchanged ==
    /\ UNCHANGED <<Config, svc, reference_images, image_ok, submits,
                   lastSubmit, submitTransient, task_id, pollCount, pollSeen,
                   lastResp, pollSleeps, queries, jobEnd, nres,
                   google_file_id>>
    /\ UNCHANGED <<OssVars, RouteVars, I2IVars>>

(* generate_text_to_video / generate_image_to_video call the method with   *)
(* the temporary URL the vendor returned.                                  *)
CallSaveVideo ==
    /\ pc = "idle"
    /\ svc' = "Sora"
    /\ pc' = "download"
    /\ invoked' = 1
    /\ temp_path' = NoPath
    /\ temp_files' = {}
    /\ unlinked' = {}
    /\ UNCHANGED <<Config, reference_images, image_ok, attempt_number,
                   submits, lastSubmit, submitTransient, sleeps, lastExc,
                   task_id, pollCount, pollSeen, lastResp, pollSleeps,
                   queries, jobEnd, nres, urls, downloads, uploads, outcome,
                   google_file_id>>
    /\ UNCHANGED <<OssVars, RouteVars, I2IVars>>

(* The attempt ends by raising e: the retry wrapper starts the method      *)
(* again, with temp_path = None, or lets the exception out.                *)
SaveRaise(e) ==
    LET wrapped == retry_decorator("Sora", enable_retry) IN
    /\ lastExc' = e
    /\ IF /\ wrapped
          /\ retry_if_exception_type(e)
          /\ ~stop_after_attempt(attempt_number, max_attempts)
       THEN /\ sleeps' = Append(sleeps,
                   wait_exponential(wait_multiplier, wait_min, wait_max,
                                    attempt_number))
            /\ attempt_number' = attempt_number + 1
            /\ invoked' = invoked + 1
            /\ pc' = "download"
            /\ temp_path' = NoPath
            /\ UNCHANGED outcome
       ELSE /\ outcome' = [kind |-> "raise", payload |-> 0, fields |-> {},
                            exc |-> IF wrapped THEN retry_error(e, Reraise)
                                    ELSE e]
            /\ pc' = "done"
            /\ UNCHANGED <<sleeps, attempt_number, invoked, temp_path>>

(* client.get and raise_for_status; no file exists yet.                    *)
SaveDownload(dl) ==
    /\ pc = "download"
    /\ downloads' = downloads + 1
    /\ IF dl = "ok"
       THEN /\ pc' = "create"
            /\ UNCHANGED <<attempt_number, invoked, sleeps, lastExc, outcome,
                           temp_path>>
       ELSE SaveRaise(Sora_save_video_to_oss("fail", "ok").exc)
    /\ unlinked' = Sora_finally(temp_path, unlinked)
    /\ UNCHANGED <<temp_files, urls, uploads>>
    /\ SaveUnchanged

(* The task is cancelled while it waits for the response.                  *)
SaveCancel ==
    /\ pc = "download"
    /\ downloads' = downloads + 1
    /\ SaveRaise(CancelledError)
    /\ unlinked' = Sora_finally(temp_path, unlinked)
    /\ UNCHANGED <<temp_files, urls, uploads>>
    /\ SaveUnchanged

(* tempfile.NamedTemporaryFile(delete=False, suffix='.mp4') and            *)
(* temp_path = tmp_file.name.                                              *)
SaveCreate(c) ==
    /\ pc = "create"
    /\ IF c = "ok"
       THEN /\ pc' = "write"
            /\ temp_path' = TempFile(attempt_number, "video")
            /\ temp_files' = temp_files \cup
                                {TempFile(attempt_number, "video")}
            /\ UNCHANGED <<attempt_number, invoked, sleeps, lastExc, outcome,
                           unlinked>>
       ELSE /\ SaveRaise(Sora_save_video_to_oss("ok", "fail").exc)
            /\ unlinked' = Sora_finally(temp_path, unlinked)
            /\ UNCHANGED temp_files
    /\ UNCHANGED <<urls, downloads, uploads>>
    /\ SaveUnchanged

(* tmp_file.write(response.content)                                        *)
SaveWrite(w, rm) ==
    /\ pc = "write"
    /\ IF w = "ok"
       THEN /\ pc' = "upload"
            /\ UNCHANGED <<attempt_number, invoked, sleeps, lastExc, outcome,
                           temp_path, temp_files, unlinked>>
       ELSE /\ SaveRaise(Sora_save_video_to_oss("ok", "fail").exc)
            /\ unlinked' = Sora_finally(temp_path, unlinked)
            /\ temp_files' = Unlink(unlinked' \ unlinked, rm, temp_files)
    /\ UNCHANGED <<urls, downloads, uploads>>
    /\ SaveUnchanged

(* oss_service.upload_file, then the return or the raise, then finally.    *)
SaveUpload(up, rm) ==
    /\ pc = "upload"
    /\ uploads' = uploads + 1
    /\ LET r == Sora_save_video_to_oss("ok", up) IN
       IF r.act = "return"
       THEN /\ pc' = "done"
            /\ urls' = <<r.url>>
            /\ outcome' = [kind |-> "return", exc |-> NoExc, payload |-> 0,
                            fields |-> {}]
            /\ UNCHANGED <<attempt_number, invoked, sleeps, lastExc,
                           temp_path>>
       ELSE /\ SaveRaise(r.exc)
            /\ UNCHANGED urls
    /\ unlinked' = Sora_finally(temp_path, unlinked)
    /\ temp_files' = Unlink(unlinked' \ unlinked, rm, temp_files)
    /\ UNCHANGED downloads
    /\ SaveUnchanged

(* The call is over; the process serves the next one.                      *)
FinishSave ==
    /\ pc = "done"
    /\ svc' = "none"
    /\ pc' = "idle"
    /\ attempt_number' = 1
    /\ invoked' = 0
    /\ sleeps' = <<>>
    /\ lastExc' = NoExc
    /\ urls' = <<>>
    /\ downloads' = 0
    /\ uploads' = 0
    /\ outcome' = NoOutcome
    /\ temp_path' = NoPath
    /\ temp_files' = {}
    /\ unlinked' = {}
    /\ UNCHANGED <<Config, reference_images, image_ok, submits, lastSubmit,
                   submitTransient, task_id, pollCount, pollSeen, lastResp,
                   pollSleeps, queries, jobEnd, nres, google_file_id>>
    /\ UNCHANGED <<OssVars, RouteVars, I2IVars>>

NextSave ==
    \/ CallSaveVideo
    \/ \E dl \in IOResult : SaveDownload(dl)
    \/ SaveCancel
    \/ \E c \in IOResult : SaveCreate(c)
    \/ \E w \in IOResult : \E rm \in IOResult : SaveWrite(w, rm)
    \/ \E up \in IOResult : \E rm \in IOResult : SaveUpload(up, rm)
    \/ FinishSave

SpecSave == InitSave /\ [][NextSave]_vars

(***************************************************************************)
(* Concurrent use of oss_service: relocations (upload_from_url) and direct *)
(* uploads (the /upload route calling upload_file), each coroutine making  *)
(* one call.                                                               *)
(***************************************************************************)
InitOss ==
    /\ enable_retry = TRUE
    /\ max_attempts = RetryMaxAttempts
    /\ wait_multiplier = WaitMultiplier
    /\ wait_min = WaitMin
    /\ wait_max = WaitMax
    /\ Idle
    /\ OssInit
    /\ ExtendInit
    /\ SaveInit
    /\ RouteInit
    /\ I2IInit

(* The event loop can run coroutine p: no other coroutine is in the middle *)
(* of synchronous code.                                                    *)
CanRun(p) == \A q \in OssProcs \ {p} : Yields(ossPc[q])

(* upload_from_url up to its first await: the GET request is sent.         *)
UploadFromUrlCall(p, f) ==
    /\ p \in Relocators
    /\ ossPc[p] = "idle"
    /\ CanRun(p)
    /\ ossPc' = [ossPc EXCEPT ![p] = "download"]
    /\ ossArgs' = [ossArgs EXCEPT ![p] = [filename |-> f, size |-> 0]]
    /\ UNCHANGED <<max_file_size, writer, today, original_max_size, reads,
                   puts, ossOutcome, ossResult>>
    /\ UNCHANGED <<OrchVars, ExtendVars, SaveVars, RouteVars, I2IVars>>

(* The download ends: a failure raises ApiError; otherwise the limit is    *)
(* saved and lifted.                                                       *)
DownloadDone(p, dl, size) ==
    /\ p \in Relocators
    /\ ossPc[p] = "download"
    /\ CanRun(p)
    /\ IF dl = "fail"
       THEN /\ ossPc' = [ossPc EXCEPT ![p] = "done"]
            /\ ossOutcome' = [ossOutcome EXCEPT ![p] = "download_failed"]
            /\ UNCHANGED <<max_file_size, writer, original_max_size,
                           ossArgs>>
       ELSE /\ ossPc' = [ossPc EXCEPT ![p] = "upload"]
            /\ ossArgs' = [ossArgs EXCEPT ![p].size = size]
            /\ original_max_size' =
                   [original_max_size EXCEPT ![p] = max_file_size]
            /\ max_file_size' = Infinity
            /\ writer' = p
            /\ UNCHANGED ossOutcome
    /\ UNCHANGED <<today, reads, puts, ossResult>>
    /\ UNCHANGED <<OrchVars, ExtendVars, SaveVars, RouteVars, I2IVars>>

(* upload_file called by upload_from_url, then the finally clause.         *)
UploadStep(p, unique_id, up) ==
    /\ p \in Relocators
    /\ ossPc[p] = "upload"
    /\ CanRun(p)
    /\ LET r == OSS_upload_file(ossArgs[p].size, max_file_size, up)
           key == OSS_generate_object_key("videos", ossArgs[p].filename,
                                          unique_id, Days[today])
       IN
       /\ reads' = reads \cup {[reader |-> p, limit |-> max_file_size,
                                 writer |-> writer]}
       /\ puts' = IF r.act = "return" THEN Append(puts, key) ELSE puts
       /\ ossOutcome' = [ossOutcome EXCEPT ![p] =
                            IF r.act = "return" THEN "ok"
                            ELSE "upload_failed"]
       /\ ossResult' = [ossResult EXCEPT ![p] =
                           OSS_upload_file_result(r, key, ossArgs[p].size)]
    /\ max_file_size' =
           upload_from_url_finally(original_max_size[p], max_file_size)
    /\ writer' = p
    /\ ossPc' = [ossPc EXCEPT ![p] = "done"]
    /\ UNCHANGED <<today, ossArgs, original_max_size>>
    /\ UNCHANGED <<OrchVars, ExtendVars, SaveVars, RouteVars, I2IVars>>

(* The /upload route: upload_file called with the request's file.          *)
DirectUpload(p, f, size, unique_id, up) ==
    /\ p \in Direct
    /\ ossPc[p] = "idle"
    /\ CanRun(p)
    /\ LET r == OSS_upload_file(size, max_file_size, up)
           key == OSS_generate_object_key("videos", f, unique_id, Days[today])
       IN
       /\ reads' = reads \cup {[reader |-> p, limit |-> max_file_size,
                                 writer |-> writer]}
       /\ puts' = IF r.act = "return" THEN Append(puts, key) ELSE puts
       /\ ossOutcome' = [ossOutcome EXCEPT ![p] =
                            CASE r.act = "return" -> "ok"
                              [] Exceeds(size, max_file_size) -> "too_large"
                              [] OTHER -> "upload_failed"]
       /\ ossResult' = [ossResult EXCEPT ![p] =
                           OSS_upload_file_result(r, key, size)]
    /\ ossPc' = [ossPc EXCEPT ![p] = "done"]
    /\ ossArgs' = [ossArgs EXCEPT ![p] = [filename |-> f, size |-> size]]
    /\ UNCHANGED <<max_file_size, writer, today, original_max_size>>
    /\ UNCHANGED <<OrchVars, ExtendVars, SaveVars, RouteVars, I2IVars>>

(* Midnight passes.                                                        *)
Midnight ==
    /\ today < Len(Days)
    /\ today' = today + 1
    /\ UNCHANGED <<max_file_size, writer, ossPc, ossArgs, original_max_size,
                   reads, puts, ossOutcome, ossResult>>
    /\ UNCHANGED <<OrchVars, ExtendVars, SaveVars, RouteVars, I2IVars>>

NextOss ==
    \/ \E p \in Relocators : \E f \in Filenames : UploadFromUrlCall(p, f)
    \/ \E p \in Relocators : \E dl \in IOResult : \E size \in FileSizes :
          DownloadDone(p, dl, size)
    \/ \E p \in Relocators : \E u \in UniqueIds : \E up \in IOResult :
          UploadStep(p, u, up)
    \/ \E p \in Direct : \E f \in Filenames : \E size \in FileSizes :
          \E u \in UniqueIds : \E up \in IOResult :
             DirectUpload(p, f, size, u, up)
    \/ Midnight

SpecOss == InitOss /\ [][NextOss]_vars

(***************************************************************************)
(* Properties.                                                             *)
(***************************************************************************)
PollLoops == {"Wanx", "WanxI2I", "WanxKf2v", "VolcVideo", "VolcJiMeng"}

(* The sleep between two status requests of each poller.                   *)
poll_interval(s) ==
    CASE s = "Wanx" -> task_poll_interval
      [] s = "WanxI2I" -> WanxI2I_poll_interval
      [] s = "WanxKf2v" -> WanxKf2v_poll_interval
      [] s = "VolcVideo" -> VolcVideo_poll_interval
      [] s = "VolcJiMeng" -> VolcJiMeng_poll_interval
      [] OTHER -> GoogleVeo_poll_interval

TimeoutSignal(e) ==
    \/ e.type = "TaskTimeoutError"
    \/ e.type = "ApiError" /\ e.message = "task timeout"

(* C1: in the poll loops of Wanx, WanxI2I, WanxKf2v, VolcVideo and         *)
(* VolcJiMeng the number of status requests for a job never exceeds the    *)
(* attempt limit, and when every request reports a running status the loop *)
(* ends with a timeout signal after exactly limit requests.                *)
C1_BoundedPolling ==
    svc \in PollLoops =>
        /\ pollCount <= PollLimit
        /\ (jobEnd.act # "none" /\ pollSeen = {"running"}) =>
              /\ pollCount = PollLimit
              /\ jobEnd.act = "raise"
              /\ TimeoutSignal(jobEnd.exc)

(* C2: for every vendor poller, a job still running when the attempts are  *)
(* exhausted makes the call raise TaskTimeoutError (not TaskFailedError)   *)
(* carrying the job id and the waited time.                                *)
C2_TimeoutRaisesTaskTimeoutError ==
    (HasPoll(svc) /\ jobEnd.act = "raise" /\ pollSeen = {"running"}) =>
        /\ jobEnd.exc.type = "TaskTimeoutError"
        /\ jobEnd.exc.task_id = task_id
        /\ jobEnd.exc.timeout = PollLimit * poll_interval(svc)
        /\ pc = "done" => /\ outcome.kind = "raise"
                          /\ outcome.exc.type = "TaskTimeoutError"

(* The terminal failure statuses each poller tests for.                    *)
TerminalFailure(s) ==
    CASE s \in {"Wanx", "WanxI2I", "GoogleVeo"} -> {"failed"}
      [] s = "WanxKf2v" -> {"failed", "canceled"}
      [] OTHER -> {"not_found", "expired"}

(* C3: for every vendor poller, a status request answered with a terminal  *)
(* failure status raises a TaskFailedError carrying the job id and the     *)
(* vendor detail; the job is not polled again and nothing is relocated.    *)
C3_TerminalFailureRaisesTaskFailedError ==
    (HasPoll(svc) /\ lastResp \in TerminalFailure(svc)) =>
        /\ jobEnd.act = "raise"
        /\ jobEnd.exc.type = "TaskFailedError"
        /\ jobEnd.exc.task_id = task_id
        /\ jobEnd.exc.detail # "none"
        /\ pc \notin {"poll", "relocate"}
        /\ nres = 0

(* C4: when the status request of WanxService._poll_task is answered       *)
(* FAILED, _poll_task raises TaskFailedError with the job's task_id and    *)
(* the vendor response as detail, and no status request follows.           *)
C4_WanxFailedRaises ==
    (svc = "Wanx" /\ lastResp = "failed") =>
        /\ jobEnd.act = "raise"
        /\ jobEnd.exc.type = "TaskFailedError"
        /\ task_id \in JobIds
        /\ jobEnd.exc.task_id = task_id
        /\ jobEnd.exc.detail = "vendor_data"
        /\ pc = "done"
        /\ outcome = [kind |-> "raise", exc |-> jobEnd.exc, payload |-> 0,
                      fields |-> {}]

C4_Witness ==
    /\ svc = "Wanx"
    /\ lastResp = "failed"
    /\ pollCount = PollLimit
    /\ "neterr" \in pollSeen
    /\ jobEnd.exc.type = "TaskFailedError"

SubmitWrapped == {"Wanx", "WanxI2I", "WanxKf2v", "VolcVideo"}

(* C6: a submit operation under the retry policy with max_attempts=3 that  *)
(* fails on its first k calls and then succeeds is invoked exactly k+1     *)
(* times when k < 3; when every call fails it is invoked exactly 3 times   *)
(* and the exception raised by the last call reaches the caller unchanged. *)
C6_RetryBoundOnSubmit ==
    (svc \in SubmitWrapped /\ retry_decorator(svc, enable_retry)) =>
        /\ invoked <= max_attempts
        /\ task_id # "none" =>
              /\ invoked = Len(sleeps) + 1
              /\ Len(sleeps) < max_attempts
        /\ (pc = "done" /\ task_id = "none") =>
              /\ invoked = max_attempts
              /\ Len(sleeps) = max_attempts - 1
              /\ outcome.kind = "raise"
              /\ outcome.exc =
                    SubmitStep(svc, lastSubmit, reference_images).exc

C6_Witness ==
    /\ svc = "Wanx"
    /\ enable_retry
    /\ pc = "done"
    /\ task_id = "none"
    /\ invoked = RetryMaxAttempts
    /\ lastSubmit = "neterr"
    /\ outcome.exc.type = "DashScopeApiError"

(* Answers to a submit that no later attempt can change: a 4xx response, a *)
(* rejection by the vendor, a request refused by the local validation.     *)
NonTransientSubmit == {"http4xx", "rejected", "not_sent"}

(* C7: a non-transient error of a retry-wrapped operation is never         *)
(* retried: it reaches the caller at once, and a WanxI2I request with more *)
(* than MAX_REFERENCE_IMAGES reference images invokes _create_task exactly *)
(* once, without any backoff sleep.                                        *)
C7_NonTransientNotRetried ==
    /\ lastSubmit \in NonTransientSubmit =>
          /\ pc = "done"
          /\ outcome.kind = "raise"
    /\ (svc = "WanxI2I" /\ reference_images > MAX_REFERENCE_IMAGES
                        /\ invoked > 0) =>
          /\ invoked = 1
          /\ sleeps = <<>>

(* C8: when enable_retry is false every operation under the retry policy,  *)
(* WanxKf2v._create_task and VolcJiMeng.generate_image included, runs      *)
(* once, never sleeps for backoff, and its exception reaches the caller    *)
(* as raised.                                                              *)
C8_RetryDisabled ==
    ~enable_retry =>
        /\ invoked <= 1
        /\ sleeps = <<>>
        /\ outcome.kind = "raise" => outcome.exc = lastExc

Clamp(x, lo, hi) == IF x < lo THEN lo ELSE IF x > hi THEN hi ELSE x

(* C9: the delay slept after the n-th failed attempt is                    *)
(* clamp(wait_multiplier * 2^(n-1), wait_min, wait_max); the delays never  *)
(* decrease and stay at wait_max once they reach it; multiplier 1, minimum *)
(* 2 and maximum 10 give 2, 2, 4, 8, 10, 10, ...                           *)
C9_BackoffDelay ==
    /\ \A n \in 1 .. Len(sleeps) :
          sleeps[n] = Clamp(wait_multiplier * 2 ^ (n - 1), wait_min, wait_max)
    /\ \A n \in 1 .. Len(sleeps) - 1 :
          /\ sleeps[n] <= sleeps[n + 1]
          /\ sleeps[n] = wait_max => sleeps[n + 1] = wait_max
    /\ (wait_multiplier = 1 /\ wait_min = 2 /\ wait_max = 10) =>
          \A n \in 1 .. Len(sleeps) :
              sleeps[n] = <<2, 2, 4, 8, 10, 10>>[Min(n, 6)]

C9_Witness ==
    /\ wait_multiplier = 1
    /\ wait_min = 2
    /\ wait_max = 10
    /\ sleeps = <<2, 2, 4, 8, 10, 10>>

(* C10: the relocation steps of VolcVideo, WanxKf2v, Qwen, WanxI2I, Sora   *)
(* and GoogleVeo never raise: when the download or the upload fails on     *)
(* every call, each result keeps its ephemeral vendor URL and the          *)
(* generation call still returns.                                          *)
C10_RelocationFallback ==
    (HasReloc(svc) /\ pc = "done" /\ downloads > 0
                   /\ \A i \in 1 .. Len(urls) : urls[i] # "oss") =>
        /\ outcome.kind = "return"
        /\ Len(urls) = nres
        /\ \A i \in 1 .. Len(urls) : urls[i] = "temp"

(* Names a result field could use to mark the result as not durable.       *)
DurabilityFlags == {"non_durable", "durable", "is_durable", "is_temporary",
                    "degraded", "relocated", "relocation_failed"}

(* C11: whenever a generation call returns an ephemeral reference because  *)
(* relocation failed, the returned result carries a flag that marks it as  *)
(* non-durable.                                                            *)
C11_NonDurableMarking ==
    (HasReloc(svc) /\ outcome.kind = "return"
                   /\ \E i \in 1 .. Len(urls) : urls[i] = "temp") =>
        outcome.fields \cap DurabilityFlags # {}

(* The services that wait for an asynchronous job.                         *)
Pollers == PollLoops \cup {"GoogleVeo"}

(* Answers to a status request that report success.                        *)
SuccessStatus == {"succeeded", "succeeded_with_error"}

(* C12: within one generation call no status request is issued before the  *)
(* submit call has returned a job id, and no relocation step starts before *)
(* the poll has returned a success status for that job.                    *)
C12_StepOrdering ==
    [][/\ queries' > queries =>
             /\ task_id \in JobIds
             /\ lastSubmit = "ok"
       /\ (downloads' > downloads /\ svc \in Pollers) =>
             /\ task_id \in JobIds
             /\ jobEnd.act = "return"
             /\ lastResp \in SuccessStatus \/ lastSubmit = "ok_done"]_vars

C12_Witness ==
    /\ svc = "WanxKf2v"
    /\ pollSeen = {"running", "succeeded"}
    /\ downloads = 1
    /\ queries = PollLimit
    /\ outcome.kind = "return"

(* C13: every generation call whose job succeeded hands each raw result to *)
(* the relocation step exactly once before it returns: no service returns  *)
(* a vendor URL that never went through a relocation attempt, and no       *)
(* service downloads the same raw result more than once.                   *)
C13_RelocationExactlyOnce ==
    /\ (outcome.kind = "return" /\ svc \in Services) =>
          /\ downloads = nres
          /\ \A i \in 1 .. Len(urls) : urls[i] # "vendor"
    /\ submits <= 1 => downloads <= nres

(* C14: once a submitted job has reached a terminal failure status, or its *)
(* polling has timed out, the generation call reports the failure to the   *)
(* caller and never submits another job.                                   *)
C14_NoResubmission ==
    (svc \in Pollers /\ \/ lastResp \in TerminalFailure(svc)
                        \/ jobEnd.act = "raise" /\ lastResp = "running") =>
        /\ pc = "done"
        /\ outcome.kind = "raise"

(* C15: in every vendor poll loop an unrecognized or missing status value  *)
(* makes the loop sleep and poll again within the attempt limit: it never  *)
(* makes the loop return a result, and the loop raises only when the       *)
(* attempts are exhausted.                                                 *)
C15_UnknownStatusIsRunning ==
    (svc \in Pollers /\ lastResp \in {"other", "missing"}) =>
        /\ jobEnd.act # "return"
        /\ jobEnd.act = "raise" => pollCount = PollLimit
        /\ pollCount < PollLimit => pc = "poll"

(* C16: a status response that carries both a success status and an error  *)
(* indication makes every vendor poller report failure; the result payload *)
(* never reaches the generation call.                                      *)
C16_FailedWinsOverSuccess ==
    (svc \in Pollers /\ lastResp = "succeeded_with_error") =>
        /\ jobEnd.act = "raise"
        /\ outcome.kind # "return"
        /\ pc # "relocate"

(* Answers that report a transient network error on the request itself.    *)
TransientError == {"neterr", "http5xx"}

(* C17: a status request that fails with a transient network error         *)
(* (connection error, timeout, 5xx) does not abort the poll loop: the loop *)
(* goes on with the next attempt as if the job were running, and fails     *)
(* only when the attempts are exhausted.                                   *)
C17_TransientPollErrorContinues ==
    (svc \in Pollers /\ lastResp \in TransientError) =>
        /\ jobEnd.act # "return"
        /\ jobEnd.act = "raise" => pollCount = PollLimit
        /\ pollCount < PollLimit => pc = "poll"

(* C18: a status request that fails with a terminal HTTP error (401, 404)  *)
(* classifies the job as failed: a TaskFailedError is raised at that poll  *)
(* and the job is not polled again.                                        *)
C18_TerminalHttpErrorFails ==
    (svc \in Pollers /\ lastResp = "http4xx") =>
        /\ jobEnd.act = "raise"
        /\ jobEnd.exc.type = "TaskFailedError"
        /\ pc # "poll"

(* C19: a transient network error (connection failure or 5xx) that         *)
(* persists through every attempt of the submit, or through every status   *)
(* request up to the attempt limit, reaches the caller as a                *)
(* TaskFailedError.                                                        *)
C19_TransientEscalatesToTaskFailed ==
    /\ (pc = "done" /\ outcome.kind = "raise"
                    /\ lastSubmit \in TransientError /\ submitTransient
                    /\ queries = 0 /\ downloads = 0) =>
          outcome.exc.type = "TaskFailedError"
    /\ (svc \in Pollers /\ pc = "done" /\ jobEnd.act = "raise"
                        /\ pollCount = PollLimit
                        /\ pollSeen \subseteq TransientError) =>
          outcome.exc.type = "TaskFailedError"

(* C20: a TaskFailedError or a validation error raised inside a generation *)
(* call reaches the caller of the public method as the same exception,     *)
(* with the same type, message and detail.                                 *)
C20_PropagatesUnchanged ==
    /\ (pc = "done" /\ lastSubmit = "not_sent") =>
          /\ outcome.kind = "raise"
          /\ outcome.exc = Validate(svc, reference_images, image_ok).exc
    /\ (pc = "done" /\ jobEnd.act = "raise"
                    /\ jobEnd.exc.type = "TaskFailedError") =>
          /\ outcome.kind = "raise"
          /\ outcome.exc = jobEnd.exc

(* C21: WanxKf2vService._poll_task raises TaskFailedError when the status  *)
(* is FAILED, CANCELED or UNKNOWN, TaskTimeoutError when every one of the  *)
(* max_poll_attempts status requests reports PENDING/RUNNING, and          *)
(* DashScopeApiError when the status request returns an HTTP error status  *)
(* or a body without output; no other exception type escapes in these      *)
(* cases.                                                                  *)
C21_Kf2vPollErrors ==
    (svc = "WanxKf2v" /\ lastResp # "none") =>
        /\ lastResp \in {"failed", "canceled", "missing"} =>
              /\ jobEnd.act = "raise"
              /\ jobEnd.exc.type = "TaskFailedError"
        /\ (pollSeen = {"running"} /\ pollCount = PollLimit) =>
              /\ jobEnd.act = "raise"
              /\ jobEnd.exc.type = "TaskTimeoutError"
        /\ lastResp \in {"http4xx", "http5xx", "no_output"} =>
              /\ jobEnd.act = "raise"
              /\ jobEnd.exc.type = "DashScopeApiError"

(* C22: once a cancellation has been observed by a poll loop that was      *)
(* sleeping or awaiting a status response, the call issues no further      *)
(* status request and the retry wrapper issues no further submit; the call *)
(* ends with the CancelledError.                                           *)
C22_CancellationStopsPolling ==
    [][lastExc.type = "asyncio.CancelledError" =>
          /\ queries' <= queries
          /\ submits' <= submits
          /\ pc = "done"
          /\ outcome.kind = "raise"
          /\ outcome.exc = CancelledError]_vars

C22_Witness ==
    /\ svc = "VolcJiMeng"
    /\ lastExc.type = "asyncio.CancelledError"
    /\ pollSeen = {"running"}
    /\ queries = PollLimit
    /\ submits = 1
    /\ pc = "done"

(* C23: any number of relocations and uploads, also with the same filename *)
(* on the same day, write distinct object keys: no put_object overwrites   *)
(* an object written by another upload_file call.                          *)
C23_DistinctKeys ==
    \A i, j \in 1 .. Len(puts) : i # j => puts[i] # puts[j]

(* C24: coroutines running concurrently share no mutable state but the     *)
(* bucket: no coroutine reads a value of an attribute of the oss_service   *)
(* singleton (max_file_size, which upload_from_url rewrites) that another  *)
(* coroutine's call in progress has put there.                             *)
C24_NoObservableSharedState ==
    \A r \in reads :
        r.limit # Limit(oss_max_file_size) => r.writer = r.reader

C24_Witness ==
    /\ ossPc["r1"] = "download"
    /\ ossOutcome["r2"] = "ok"
    /\ ossOutcome["d1"] = "too_large"
    /\ [reader |-> "r2", limit |-> Infinity, writer |-> "r2"] \in reads
    /\ [reader |-> "d1", limit |-> Limit(oss_max_file_size),
        writer |-> "r2"] \in reads

(* C26: max_file_size equals the configured limit whenever no coroutine is *)
(* inside the upload step of upload_from_url, so it has its pre-call value *)
(* after every upload_from_url call, the ones whose download or upload     *)
(* failed included; and no direct upload_file call checks its size against *)
(* the lifted limit.                                                       *)
C26_LimitNeverLeftLifted ==
    /\ (\A p \in Relocators : ossPc[p] # "upload") =>
          max_file_size = Limit(oss_max_file_size)
    /\ \A r \in reads : r.reader \in Direct => r.limit.finite

C26_Witness ==
    /\ ossOutcome["r1"] = "upload_failed"
    /\ ossOutcome["r2"] = "download_failed"
    /\ ossOutcome["d1"] = "too_large"
    /\ writer = "r1"
    /\ max_file_size = Limit(oss_max_file_size)

(* C25: a retry-wrapped Google Veo operation whose vendor call fails with a *)
(* quota error (429, RESOURCE_EXHAUSTED, quota) is not retried: the call   *)
(* ends at that attempt and the caller receives an ApiError with           *)
(* status_code 429.                                                        *)
C25_QuotaSkipsRetry ==
    (svc = "GoogleVeo" /\ lastSubmit = "quota") =>
        /\ pc = "done"
        /\ outcome.kind = "raise"
        /\ outcome.exc.type = "ApiError"
        /\ outcome.exc.status_code = 429

(* C27: once a job has been submitted and polled to success and the call   *)
(* has started to download its result, no failure of a later step makes    *)
(* the call submit a new job, in GoogleVeo and Qwen included.              *)
C27_AtMostOneSuccessfulSubmission ==
    [][downloads > 0 => submits' <= submits]_vars

(* The number of submit attempts whose retry wrapper encloses the poll     *)
(* loop, else 1.                                                           *)
PollRounds == IF "poll" \in RetryScope(svc) THEN Max(1, submits) ELSE 1

(* C28 as stated: in every generation call the number of submit calls is   *)
(* at most the retry limit (3) and the number of status queries at most    *)
(* PollRounds times the poll limit.                                        *)
C28_BoundedCalls ==
    /\ submits <= RetryMaxAttempts
    /\ queries <= PollRounds * PollLimit

(* Vendor requests one generation call asks for.                           *)
Requests == IF svc = "Gemini" THEN Max(1, nres) ELSE 1

(* The network calls made so far by the call in progress.                  *)
CallsMade == invoked + submits + queries + downloads

(* C28 (amended): every generation call terminates, each network call that *)
(* returns or raises either ending the call or adding to a bounded count   *)
(* of calls made; the number of submit calls is at most the retry limit    *)
(* (3) for each vendor request the call makes (num_images requests in      *)
(* Gemini's generate_images, one in every other method), and the number of *)
(* status queries at most PollRounds times the poll limit.                 *)
C28_TerminatesWithBoundedCalls ==
    /\ [](/\ submits <= RetryMaxAttempts * Requests
          /\ invoked <= RetryMaxAttempts * Requests
          /\ queries <= PollRounds * PollLimit
          /\ downloads <= RetryMaxAttempts * Max(1, nres))
    /\ [][(pc \in {"submit", "poll", "relocate"}) =>
             (pc' = "done" \/ CallsMade' > CallsMade)]_vars

C28_Witness ==
    /\ svc = "Gemini"
    /\ nres = MaxImages
    /\ submits = RetryMaxAttempts * MaxImages
    /\ Len(urls) = MaxImages
    /\ pc = "done"
    /\ outcome.kind = "return"

(* GoogleVeoService._poll_operation: the local elapsed_time and the        *)
(* service's max_wait_time, scaled to PollLimit poll intervals.            *)
elapsed_time == pollSleeps * GoogleVeo_poll_interval

max_wait_time == PollLimit * GoogleVeo_poll_interval

(* Answers to a refresh that report operation.done.                        *)
OperationDone == {"succeeded", "succeeded_with_error", "failed"}

C30_TempFilesRemoved ==
    /\ pc = "done" => temp_files = {}
    /\ (pc = ExtendStart(google_file_id) /\ attempt_number > 1) =>
          temp_files = {}

(***************************************************************************)
(* C31: in SoraService._save_video_to_oss every attempt made under the     *)
(* retry wrapper, whether it returns the OSS URL or raises, has called     *)
(* os.unlink on the temporary file it created before it ends; a file       *)
(* still on disk between attempts or after the call is one whose deletion  *)
(* was attempted.                                                          *)
(***************************************************************************)
AttemptEnds ==
    /\ svc = "Sora"
    /\ pc \in SavePcs
    /\ pc' = "done" \/ attempt_number' > attempt_number

C31_TempFileUnlinked ==
    /\ [][(AttemptEnds /\ temp_path # NoPath) => temp_path \in unlinked']_vars
    /\ []((svc = "Sora" /\ pc \in {"download", "done"}) =>
             temp_files \subseteq unlinked)

(* Two attempts failed at the upload and the third returned the URL: the   *)
(* three files were unlinked and none is left.                             *)
C31_Witness ==
    /\ svc = "Sora"
    /\ pc = "done"
    /\ outcome.kind = "return"
    /\ attempt_number = RetryMaxAttempts
    /\ unlinked = {TempFile(a, "video") : a \in 1 .. RetryMaxAttempts}
    /\ temp_files = {}

(***************************************************************************)
(* C32: WanxI2IService.generate_image returns one URL per vendor result    *)
(* that has a url, in the vendor's order; the URL of an image is its OSS   *)
(* URL when its relocation succeeded and its temporary URL when it failed; *)
(* a relocation, failed or not, adds exactly one entry, leaves the earlier *)
(* entries as they were and does not make the call raise.                  *)
(***************************************************************************)
WithUrl(rs) == {i \in 1 .. Len(rs) : rs[i]}

Ascending(us) ==
    \A j \in 1 .. Len(us) : \A k \in 1 .. Len(us) :
        j < k => us[j].image < us[k].image

C32_OneUrlPerResult ==
    /\ [](svc = "WanxI2I" /\ pc = "done" /\ outcome.kind = "return" =>
            /\ Len(urls) = Cardinality(WithUrl(results))
            /\ {urls[j].image : j \in 1 .. Len(urls)} = WithUrl(results)
            /\ Ascending(urls)
            /\ \A j \in 1 .. Len(urls) :
                  urls[j].kind = IF urls[j].image \in stored THEN "oss"
                                 ELSE "temp")
    /\ [][(pc = "save_images" /\ outcome'.exc # CancelledError) =>
             /\ Len(urls') = Len(urls) + 1
             /\ SubSeq(urls', 1, Len(urls)) = urls
             /\ outcome'.kind # "raise"
             /\ pc' \in {"save_images", "done"}]_vars

(* The first image was relocated, the second fell back to its temporary   *)
(* URL, and the call returned both.                                        *)
C32_Witness ==
    /\ svc = "WanxI2I"
    /\ pc = "done"
    /\ outcome.kind = "return"
    /\ results = <<TRUE, TRUE>>
    /\ urls = <<[image |-> 1, kind |-> "oss"], TempUrl(2)>>

(***************************************************************************)
(* C33: OSSService.upload_file called with content larger than             *)
(* max_file_size raises ApiError and the bucket is as before; called with  *)
(* content not larger than max_file_size it raises only when put_object    *)
(* failed, and otherwise writes exactly one object and returns that        *)
(* object's key, URL and size.                                             *)
(***************************************************************************)
UploadFileRuns(p) ==
    /\ ossPc[p] # "done"
    /\ ossPc'[p] = "done"
    /\ ossOutcome'[p] # "download_failed"

C33_UploadFile ==
    [][\A p \in OssProcs : UploadFileRuns(p) =>
          LET size == ossArgs'[p].size
              ret == ossResult'[p]
          IN
          IF max_file_size.finite /\ size > max_file_size.bytes
          THEN /\ ret.act = "raise"
               /\ ret.exc.type = "ApiError"
               /\ puts' = puts
          ELSE \/ /\ ret.act = "raise"
                  /\ ret.exc.type = "ApiError"
                  /\ ret.exc.detail = "oss_error"
                  /\ puts' = puts
               \/ /\ ret.act = "return"
                  /\ Len(puts') = Len(puts) + 1
                  /\ SubSeq(puts', 1, Len(puts)) = puts
                  /\ ret.object_key = puts'[Len(puts')]
                  /\ ret.url = OSS_get_public_url(ret.object_key)
                  /\ ret.size = size]_vars

(* A direct upload of a file over the limit was refused; a relocation,     *)
(* which runs upload_file with the limit lifted, stored a file of the same *)
(* size and got its key back.                                              *)
C33_Witness ==
    /\ ossOutcome["d1"] = "too_large"
    /\ ossResult["d1"].act = "raise"
    /\ \E p \in Relocators :
          /\ ossResult[p].act = "return"
          /\ ossResult[p].size = oss_max_file_size + 1
          /\ puts = <<ossResult[p].object_key>>

(***************************************************************************)
(* C34: the /api/video-extension/extend handler answers every ApiError,    *)
(* raised by its own model check or by extend_video, with an HTTPException *)
(* of status 500 whose detail holds the error's message and detail, and    *)
(* lets no exception of another type out.                                  *)
(***************************************************************************)
C34_ApiErrorBecomesHttp500 ==
    /\ response.kind \in {"none", "return", "HTTPException"}
    /\ (response # NoResponse /\ request_model \notin video_extension_models)
          => response = HTTPException(500, "unsupported model",
                                      "not in the model list")
    /\ (response # NoResponse /\ pc = "done" /\ outcome.kind = "raise"
          /\ IsApiError(outcome.exc))
          => response = HTTPException(500, outcome.exc.message,
                                      outcome.exc.detail)

====
